---- MODULE Spec2Model ----
(***************************************************************************)
(* Replication substrate of corrosion: local write intake                  *)
(* (make_broadcastable_changes), remote change ingestion (process_msg,     *)
(* handle_gossip), agent setup / restart (setup), over a CRDT-extended     *)
(* engine (column-versioned last-writer-wins).                             *)
(***************************************************************************)
EXTENDS Naturals, Integers, Sequences, FiniteSets, TLC

(* ----------------------------- bounds ---------------------------------- *)
MaxWrites == 2          \* local writes that may commit on a node
MaxRemoteVersion == 1   \* versions of the remote actor offered to a node
MaxChangeSize == 1      \* agent.config().max_change_size
MaxRestarts == 1        \* restarts (setup after the first launch) of a node
MaxBatch == 2           \* messages in one gossip batch

(* --------------------------- program constants -------------------------- *)
RwPoolSize == 1         \* bb8 max_size of the read-write pool

Nodes == {"n1"}
Tasks == {"t1", "t2"}
\* Uuid::new_v4() never gives the same uuid twice: the k-th uuid drawn on a node.
NewV4 == [n1 |-> <<"a1", "a2", "a3", "a4">>, n2 |-> <<"b1", "b2", "b3", "b4">>]
\* The site id the engine gives itself when the database is first opened.
EngineSiteId == [n1 |-> "e1", n2 |-> "e2"]
RemoteActor == "r1"
Cells == {"k1", "k2"}
Vals == {2}

None == "None"
Null == "NULL"
\* Option<i64>::None of a db_version (every Some(db_version) is >= 1).
NoDbVersion == 0

\* F applied to the value of v, which is computed once.
With(v, F(_)) == CHOOSE y \in {F(x) : x \in {v}} : TRUE

Max(S) == CHOOSE x \in S : \A y \in S : y <= x

(* --------------------------- the engine --------------------------------- *)
(* The engine keeps, per cell (table, pk, cid), one clock row: the value,   *)
(* its col_version, the local db_version of the transaction that wrote it   *)
(* and the site it came from (NULL for a local write).                      *)
NoRow == [cv |-> 0, val |-> 0, dbv |-> 0, site |-> None]

EmptyDb == [clock |-> [c \in Cells |-> NoRow], bk |-> {}]

HasRow(d, c) == d.clock[c].cv > 0

\* SELECT crsql_dbversion()
crsql_dbversion(d) ==
    LET S == {d.clock[c].dbv : c \in {x \in Cells : HasRow(d, x)}}
    IN  IF S = {} THEN 0 ELSE Max(S)

\* One user statement: set cell c to value v.  A statement that leaves the
\* value as it is records no change (http.rs:629-646, "no actual changes!").
\* Returns the engine state and the number of rows it impacted.
execute_statement(d, stmt, pend) ==
    LET row == d.clock[stmt.cell]
    IN  IF HasRow(d, stmt.cell) /\ row.val = stmt.val
        THEN [db |-> d, n |-> 0]
        ELSE [db |-> [d EXCEPT !.clock[stmt.cell] =
                        [cv |-> row.cv + 1, val |-> stmt.val,
                         dbv |-> pend, site |-> Null]],
              n |-> 1]

\* The user closure F of api_v1_db_execute: every statement in order.
RECURSIVE RunStatements(_, _, _)
RunStatements(d, stmts, pend) ==
    IF stmts = <<>> THEN [db |-> d, n |-> 0]
    ELSE LET r == execute_statement(d, Head(stmts), pend)
             rest == RunStatements(r.db, Tail(stmts), pend)
         IN  [db |-> rest.db, n |-> r.n + rest.n]

\* SELECT ... FROM crsql_changes WHERE site_id IS NULL AND db_version > ?
\* mapped to Change records carrying the local actor as site_id.
LocalChangesSince(d, since, actor) ==
    {[cell |-> c, val |-> d.clock[c].val, col_version |-> d.clock[c].cv,
      db_version |-> d.clock[c].dbv, site_id |-> actor] :
        c \in {x \in Cells : HasRow(d, x) /\ d.clock[x].site = Null
                               /\ d.clock[x].dbv > since}}

\* INSERT INTO crsql_changes of one remote change: the merge function.  The
\* larger col_version wins, then the larger value; crsql_rows_impacted()
\* tells whether the row was taken.
MergeWins(row, ch) ==
    \/ ch.col_version > row.cv
    \/ ch.col_version = row.cv /\ ch.val > row.val

apply_remote_change(d, ch, pend) ==
    IF MergeWins(d.clock[ch.cell], ch)
    THEN [db |-> [d EXCEPT !.clock[ch.cell] =
                    [cv |-> ch.col_version, val |-> ch.val,
                     dbv |-> pend, site |-> ch.site_id]],
          n |-> 1]
    ELSE [db |-> d, n |-> 0]

\* SELECT MAX(db_version) FROM crsql_changes is NULL when there is no row,
\* and row.get::<i64> of NULL is an error.
NoChangeRows(d) == \A c \in Cells : ~HasRow(d, c)

MaxDbVersionOfChanges(d) == Max({d.clock[c].dbv : c \in {x \in Cells : HasRow(d, x)}})

\* A row written without its db_version.
BkRow_WithoutDbVersion(a, v, dbv, ts) ==
    [actor_id |-> a, version |-> v, db_version |-> NoDbVersion, ts |-> ts]

\* A row of __corro_bookkeeping, PRIMARY KEY (actor_id, version).
BkRow(a, v, dbv, ts) == [actor_id |-> a, version |-> v, db_version |-> dbv, ts |-> ts]

\* A bookkeeping table without its primary key: no insert conflicts.
BkHas_NoPrimaryKey(d, a, v) == FALSE

\* agent.rs:1064 with the PRIMARY KEY (actor_id, version) of the table.
BkHas(d, a, v) == \E r \in d.bk : r.actor_id = a /\ r.version = v

(* ----------------------------- the Bookie ------------------------------- *)
(* ActorId -> RangeMap<Version, (db_version, ts)>, kept as the set of its   *)
(* entries; inserting a version that is present replaces its entry.         *)
BookieContains(b, a, v) == \E e \in b : e.actor_id = a /\ e.version = v

BookieLast(b, a) ==
    LET S == {e.version : e \in {x \in b : x.actor_id = a}}
    IN  IF S = {} THEN 0 ELSE Max(S)

BookieInsert(b, a, v, dbv, ts) ==
    {e \in b : ~(e.actor_id = a /\ e.version = v)}
        \cup {[actor_id |-> a, version |-> v, db_version |-> dbv, ts |-> ts]}

\* A datagram: its first byte (none in an empty datagram) and the frames
\* that follow it.  What follows the byte 0 is for SWIM to read.
Datagram(first, rest) == [first |-> first, rest |-> rest]

NoDatagram == [payload |-> Datagram(<<>>, <<>>), ret |-> None]

\* The routes of the peer API with no request: the requests being handled
\* by /v1/sync and by /v1/broadcast, those waiting in the buffer of
\* /v1/broadcast, and the last thing a route did with a request.
\* agent.rs:216: channel(10240), read by the broadcaster.  backlog counts
\* the inputs in it whose content is not followed; closed tells that the
\* receiver is gone.
BcastCapacity == 10240

OpenChannel == [backlog |-> 0, closed |-> FALSE]

\* The tasks that send to tx_bcast: the task spawned by a local write
\* (http.rs:147-161) and handle_gossip (agent.rs:606-614).
Submitters == {"write", "gossip"}

\* handle_sync before its first call: no backoff iterator, no request.
NoSummary == [actor_id |-> None, heads |-> <<>>, need |-> <<>>]

NoSync == [pc |-> "idle", retry_count |-> 0, requests |-> 0, with |-> None,
           res |-> None, sync |-> NoSummary, choices |-> {}]

\* agent.rs:338-414, 523-553 and 1336-1363: the long-running tasks of run.
Loops == {"main", "sync_loop", "udp", "bootstrap"}

\* No call of the write API yet.
NoCall == [statements |-> <<>>, fails |-> FALSE, engine_ok |-> TRUE, status |-> 0,
           results |-> <<>>]

\* A database without a table of the user (init_schema of a new database),
\* and no apply_schema yet.
NoTables == [t \in {} |-> {}]

NoBootstrap == [list |-> <<>>, dns |-> <<>>, rows |-> {}, pool_ok |-> TRUE,
                resolved |-> [ok |-> TRUE, addrs |-> {}], ret |-> None,
                addrs |-> {}]

NoSchema == [tables |-> NoTables, new |-> NoTables, ret |-> None]

IdleSender == [pc |-> "idle", left |-> 0]

NoRequests == [sync |-> 0, broadcast |-> 0, buffered |-> 0,
               last |-> [route |-> None, answer |-> None]]

(* ------------------------------ state ----------------------------------- *)
VARIABLES
    up,         \* up[n]: the agent of node n is running (setup has completed)
    actorFile,  \* <base>/actor_id: None (empty file) or the stored uuid
    siteId,     \* the engine's __crsql_siteid, None before the first open
    actorId,    \* agent.actor_id() of the running agent
    db,         \* committed engine state: clock rows and __corro_bookkeeping
    bookie,     \* agent.bookie()
    conn,       \* tasks holding a connection of the read-write pool
    lock,       \* holder of the write lock of the local actor's Booked
    task,       \* task[n][t]: position and locals of each handler
    pending,    \* spawned send tasks that have not reached tx_bcast yet
    bcast,      \* the tx_bcast channel: BroadcastInput in arrival order
    published,  \* the last changes handed to the subscription hook
    committed,  \* history: local writes in commit order (version, window)
    restarts,   \* history: number of restarts
    net,        \* net[n]: broadcast datagrams on their way to node n
    foca_tx,    \* foca_tx[n]: the inputs sent to the SWIM runtime, in order
    bcast_msg_tx, \* bcast_msg_tx[n]: the ingest channel read by run's main loop
    handled,    \* handled[n]: the last datagram handle_payload got, its result
    datagrams,  \* history: number of datagrams received
    members,    \* members[n]: agent.members, the actors of Members.states
    member_events, \* member_events[n]: the MemberEvents sent, in order
    notified,   \* history: the notifications handle_notifications got
    peer_api,   \* peer_api[n]: the requests in the routes of the peer API
    tx_bcast,   \* tx_bcast[n]: the channel of bcast besides the inputs bcast lists
    senders,    \* senders[n][s]: where submitter s is in its send to tx_bcast
    sync_cycle, \* sync_cycle[n]: where handle_sync is, its requests and retries
    tripwire,   \* tripwire[n]: the tripwire of the agent has fired
    running,    \* running[n][l]: where long-running task l of the agent is
    api_call,   \* api_call[n]: the last call of the write API and its answer
    schema,     \* schema[n]: the tables of the database, the last apply_schema
    bootstrap   \* bootstrap[n]: the last call of generate_bootstrap, its result

\* The state of run's helper tasks, which the handlers of writes and of
\* gossip batches never touch.
aux == <<foca_tx, bcast_msg_tx, handled, datagrams, members, member_events,
         notified, peer_api, tx_bcast, senders,
         sync_cycle, tripwire, running, api_call, schema, bootstrap>>

\* The variables of the UDP ingress, of the membership and of the routes.
ingress == <<bcast_msg_tx, handled, datagrams>>
membership == <<members, member_events, notified>>
routes == <<peer_api>>
sending == <<tx_bcast, senders>>

loops == <<sync_cycle, tripwire, running>>

calls == <<api_call, schema, bootstrap>>

\* The state of the write and ingest handlers.
core == <<up, actorFile, siteId, actorId, db, bookie, conn, lock, task,
          pending, bcast, published, committed, restarts, net>>

vars == <<up, actorFile, siteId, actorId, db, bookie, conn, lock, task,
          pending, bcast, published, committed, restarts, net, aux>>

\* What run's helper tasks start from on the nodes N.
InitAux(N) ==
    /\ foca_tx = [n \in N |-> <<>>]
    /\ bcast_msg_tx = [n \in N |-> <<>>]
    /\ handled = [n \in N |-> NoDatagram]
    /\ datagrams = [n \in N |-> 0]
    /\ members = [n \in N |-> {}]
    /\ member_events = [n \in N |-> <<>>]
    /\ notified = [n \in N |-> <<>>]
    /\ peer_api = [n \in N |-> NoRequests]
    /\ tx_bcast = [n \in N |-> OpenChannel]
    /\ senders = [n \in N |-> [s \in Submitters |-> IdleSender]]
    /\ sync_cycle = [n \in N |-> NoSync]
    /\ tripwire = [n \in N |-> FALSE]
    /\ running = [n \in N |-> [l \in Loops |-> "unborn"]]
    /\ api_call = [n \in N |-> NoCall]
    /\ schema = [n \in N |-> NoSchema]
    /\ bootstrap = [n \in N |-> NoBootstrap]

\* agent.rs:216: tx_bcast takes an input while it is open and holds fewer
\* than its capacity.
HasCapacity(n) == Len(bcast[n]) + tx_bcast[n].backlog < BcastCapacity

CanSend(n) == ~tx_bcast[n].closed /\ HasCapacity(n)

IdleTask == [pc |-> "idle", start |-> 0, tx |-> EmptyDb, rows |-> 0,
             version |-> 0, changes |-> {}, dbv |-> NoDbVersion, ts |-> 0,
             left |-> 0, msg |-> None, impactful |-> {}, out |-> <<>>]

Message(a, v, cs, ts) == [actor_id |-> a, version |-> v, changeset |-> cs, ts |-> ts]

Init ==
    /\ up = [n \in Nodes |-> FALSE]
    /\ actorFile = [n \in Nodes |-> None]
    /\ siteId = [n \in Nodes |-> None]
    /\ actorId = [n \in Nodes |-> None]
    /\ db = [n \in Nodes |-> EmptyDb]
    /\ bookie = [n \in Nodes |-> {}]
    /\ conn = [n \in Nodes |-> {}]
    /\ lock = [n \in Nodes |-> None]
    /\ task = [n \in Nodes |-> [t \in Tasks |-> IdleTask]]
    /\ pending = [n \in Nodes |-> {}]
    /\ bcast = [n \in Nodes |-> <<>>]
    /\ published = [n \in Nodes |-> None]
    /\ committed = [n \in Nodes |-> <<>>]
    /\ restarts = [n \in Nodes |-> 0]
    /\ net = [n \in Nodes |-> {}]
    /\ InitAux(Nodes)

(* ------------------------------ setup ----------------------------------- *)
\* A setup that draws a uuid on every launch.
ActorUuid_EveryLaunch(file, fresh) == fresh

\* agent.rs:102-111: the uuid of the actor_id file, generated when it is empty.
ActorUuid(file, fresh) == IF file = None THEN fresh ELSE file

\* A setup that starts from an empty Bookie.
BookieFromRows_Nothing(rows) == {}

\* agent.rs:170-195: the Bookie rebuilt from every row of __corro_bookkeeping.
BookieFromRows(rows) ==
    {[actor_id |-> r.actor_id, version |-> r.version,
      db_version |-> r.db_version, ts |-> r.ts] : r \in rows}

\* agent.rs:133-140: the engine's site id after the mismatch check.
SiteIdAfterSetup(crsql_siteid, actor_uuid) ==
    IF crsql_siteid # actor_uuid THEN actor_uuid ELSE crsql_siteid

\* setup of the launch that follows restarts[n] earlier ones.
setup(n) ==
    /\ ~up[n]
    /\ LET actor_uuid == ActorUuid(actorFile[n], NewV4[n][restarts[n] + 1])
           crsql_siteid == IF siteId[n] = None THEN EngineSiteId[n] ELSE siteId[n]
       IN  /\ actorFile' = [actorFile EXCEPT ![n] = actor_uuid]
           /\ siteId' = [siteId EXCEPT ![n] = SiteIdAfterSetup(crsql_siteid, actor_uuid)]
           /\ actorId' = [actorId EXCEPT ![n] = actor_uuid]
    /\ bookie' = [bookie EXCEPT ![n] = BookieFromRows(db[n].bk)]
    /\ up' = [up EXCEPT ![n] = TRUE]
    /\ UNCHANGED <<db, conn, lock, task, pending, bcast, published,
                   committed, restarts, net, aux>>

\* What a stop leaves of run's helper tasks: the channels are gone with the
\* process, the histories stay.
StopAux(n) ==
    /\ foca_tx' = [foca_tx EXCEPT ![n] = <<>>]
    /\ bcast_msg_tx' = [bcast_msg_tx EXCEPT ![n] = <<>>]
    /\ handled' = [handled EXCEPT ![n] = NoDatagram]
    /\ members' = [members EXCEPT ![n] = {}]
    /\ member_events' = [member_events EXCEPT ![n] = <<>>]
    /\ peer_api' = [peer_api EXCEPT ![n] = NoRequests]
    /\ tx_bcast' = [tx_bcast EXCEPT ![n] = OpenChannel]
    /\ senders' = [senders EXCEPT ![n] = [s \in Submitters |-> IdleSender]]
    /\ sync_cycle' = [sync_cycle EXCEPT ![n] = NoSync]
    /\ UNCHANGED <<datagrams, notified, tripwire, running, calls>>

\* The process stops (tripwire or crash): everything in memory is lost, an
\* open transaction is rolled back, the files stay.
stop(n) ==
    /\ up[n]
    /\ restarts[n] < MaxRestarts
    /\ up' = [up EXCEPT ![n] = FALSE]
    /\ actorId' = [actorId EXCEPT ![n] = None]
    /\ bookie' = [bookie EXCEPT ![n] = {}]
    /\ conn' = [conn EXCEPT ![n] = {}]
    /\ lock' = [lock EXCEPT ![n] = None]
    /\ task' = [task EXCEPT ![n] = [t \in Tasks |-> IdleTask]]
    /\ pending' = [pending EXCEPT ![n] = {}]
    /\ bcast' = [bcast EXCEPT ![n] = <<>>]
    /\ published' = [published EXCEPT ![n] = None]
    /\ restarts' = [restarts EXCEPT ![n] = restarts[n] + 1]
    /\ StopAux(n)
    /\ UNCHANGED <<actorFile, siteId, db, committed, net>>

(* ----------------- make_broadcastable_changes (http.rs) ----------------- *)
\* agent.clock().new_timestamp(): every call gives a later timestamp.  The
\* write of a version calls it twice (http.rs:120 and http.rs:134); the
\* timestamp of a transaction that did not commit is stored nowhere.
new_timestamp(version, call) == 2 * (version - 1) + call

\* http.rs:198-208: a request carries at least one statement.
Statements ==
    LET One == [cell : Cells, val : Vals]
    IN  {<<a>> : a \in One} \cup {<<a, b>> : a \in One, b \in One}

\* A read-write pool that hands out a second connection.
CanGetConn_Two(held) == Cardinality(held) < RwPoolSize + 1

\* http.rs:56 with agent.rs:149-152: a connection of the read-write pool is
\* handed out while fewer than max_size are held.
CanGetConn(held) == Cardinality(held) < RwPoolSize

\* A cap check that lets every write through.
TooManyRowsImpacted_Never(rows_impacted) == FALSE

\* http.rs:75: the cap check.
TooManyRowsImpacted(rows_impacted) == rows_impacted > MaxChangeSize

\* A version counted over the whole Bookie instead of the local actor.
NextVersion_AllActors(b, actor) == Cardinality(b) + 1

\* http.rs:83-85: the version of this write.
NextVersion(b, actor) == BookieLast(b, actor) + 1

\* An end_version one beyond the largest db_version read.
EndVersion_OneMore(start_version, changes) ==
    Max({start_version} \cup {ch.db_version : ch \in changes}) + 1

\* http.rs:91-105: end_version, the largest db_version of the changes read.
EndVersion(start_version, changes) ==
    Max({start_version} \cup {ch.db_version : ch \in changes})

\* A write registered and broadcast whatever it changed.
HasChanges_Always(changes) == TRUE

\* http.rs:133: only a write with changes is registered and broadcast.
HasChanges(changes) == changes # {}

ReleaseConn(n, t) == conn' = [conn EXCEPT ![n] = conn[n] \ {t}]

\* The handler of task t returns.
Finish(n, t) == task' = [task EXCEPT ![n][t] = IdleTask]

\* http.rs:56-67: pool.get(), conn.transaction(), SELECT crsql_dbversion().
write_begin(n, t) ==
    /\ up[n]
    /\ task[n][t].pc = "idle"
    /\ Len(committed[n]) < MaxWrites
    /\ CanGetConn(conn[n])
    /\ conn' = [conn EXCEPT ![n] = conn[n] \cup {t}]
    /\ task' = [task EXCEPT ![n][t] =
                  [IdleTask EXCEPT !.pc = "w_tx",
                                   !.start = crsql_dbversion(db[n]),
                                   !.tx = db[n]]]
    /\ UNCHANGED <<up, actorFile, siteId, actorId, db, bookie, lock, pending,
                   bcast, published, committed, restarts, net, aux>>

\* http.rs:63-69: the transaction cannot be opened, or the closure F
\* fails; the transaction is dropped (rolled back).
write_closure_fails(n, t) ==
    /\ task[n][t].pc = "w_tx"
    /\ Finish(n, t)
    /\ ReleaseConn(n, t)
    /\ UNCHANGED <<up, actorFile, siteId, actorId, db, bookie, lock, pending,
                   bcast, published, committed, restarts, net, aux>>

\* http.rs:69-77: F ran, and the rows it impacted exceed the cap: the
\* function returns Err(TooManyRowsImpacted), dropping the transaction.
write_too_many_rows(n, t) ==
    /\ task[n][t].pc = "w_tx"
    /\ \E stmts \in Statements :
         LET ran == RunStatements(task[n][t].tx, stmts, task[n][t].start + 1)
         IN  /\ TooManyRowsImpacted(ran.n)
             /\ task' = [task EXCEPT ![n][t] =
                   [IdleTask EXCEPT !.pc = "w_too_many", !.rows = ran.n]]
    /\ ReleaseConn(n, t)
    /\ UNCHANGED <<up, actorFile, siteId, actorId, db, bookie, lock, pending,
                   bcast, published, committed, restarts, net, aux>>

\* http.rs:238-251: api_v1_db_execute answers TooManyRowsImpacted with 400.
write_bad_request(n, t) ==
    /\ task[n][t].pc = "w_too_many"
    /\ Finish(n, t)
    /\ UNCHANGED <<up, actorFile, siteId, actorId, db, bookie, conn, lock,
                   pending, bcast, published, committed, restarts, net, aux>>

\* A write that goes on to register its version whether or not the
\* transaction committed.
tx_commit_Unchecked(ok) == TRUE

\* http.rs:109-130: `.execute(..)?` of the bookkeeping insert and
\* `tx.commit()?`: the function goes on only when both succeeded.
tx_commit(ok) == ok

\* http.rs:69-130: F ran within the cap; under the write lock of the local
\* actor's Booked the version is chosen, the changes are read, the
\* bookkeeping row is inserted when db_version advanced (an error when its
\* primary key exists), and the transaction commits (commit_ok) or fails to.
write_commit(n, t) ==
    /\ task[n][t].pc = "w_tx"
    /\ lock[n] = None
    /\ \E stmts \in Statements, commit_ok \in BOOLEAN :
         LET me == task[n][t]
             ran == RunStatements(me.tx, stmts, me.start + 1)
             version == NextVersion(bookie[n], actorId[n])
             changes == LocalChangesSince(ran.db, me.start, actorId[n])
             end_version == EndVersion(me.start, changes)
             advanced == end_version > me.start
             ts == new_timestamp(version, 1)
             bk == IF advanced
                   THEN ran.db.bk \cup {BkRow(actorId[n], version, end_version, ts)}
                   ELSE ran.db.bk
             db_version == IF advanced THEN end_version ELSE NoDbVersion
         IN  /\ ~TooManyRowsImpacted(ran.n)
             /\ IF tx_commit(commit_ok /\ ~(advanced /\ BkHas(ran.db, actorId[n], version)))
                THEN /\ db' = [db EXCEPT ![n] =
                                 IF commit_ok /\ ~(advanced /\ BkHas(ran.db, actorId[n], version))
                                 THEN [ran.db EXCEPT !.bk = bk] ELSE @]
                     /\ lock' = [lock EXCEPT ![n] = t]
                     /\ task' = [task EXCEPT ![n][t] =
                                   [me EXCEPT !.pc = "w_committed",
                                              !.tx = EmptyDb,
                                              !.rows = ran.n,
                                              !.version = version,
                                              !.changes = changes,
                                              !.dbv = db_version]]
                     /\ committed' = [committed EXCEPT ![n] =
                          IF HasChanges(changes)
                          THEN Append(committed[n],
                                 [version |-> version, start |-> me.start,
                                  end |-> end_version])
                          ELSE committed[n]]
                     /\ UNCHANGED conn
                ELSE /\ Finish(n, t)
                     /\ ReleaseConn(n, t)
                     /\ UNCHANGED <<db, lock, committed>>
    /\ UNCHANGED <<up, actorFile, siteId, actorId, bookie, pending, bcast,
                   published, restarts, net, aux>>

\* http.rs:133-166: after the commit, still under the write lock: the Bookie
\* entry, the subscription hook and the spawned send to tx_bcast.
write_finish(n, t) ==
    /\ task[n][t].pc = "w_committed"
    /\ LET me == task[n][t]
           ts == new_timestamp(me.version, 2)
       IN  IF HasChanges(me.changes)
           THEN /\ bookie' = [bookie EXCEPT ![n] =
                     BookieInsert(bookie[n], actorId[n], me.version, me.dbv, ts)]
                /\ published' = [published EXCEPT ![n] =
                     IF me.dbv # NoDbVersion
                     THEN [changes |-> me.changes, db_version |-> me.dbv]
                     ELSE published[n]]
                /\ pending' = [pending EXCEPT ![n] = pending[n] \cup
                     {[kind |-> "AddBroadcast",
                       msg |-> Message(actorId[n], me.version, me.changes, ts)]}]
           ELSE UNCHANGED <<bookie, published, pending>>
    /\ lock' = [lock EXCEPT ![n] = None]
    /\ ReleaseConn(n, t)
    /\ Finish(n, t)
    /\ UNCHANGED <<up, actorFile, siteId, actorId, db, bcast, committed, restarts, net, aux>>

\* http.rs:148-161: a spawned send task puts its message on tx_bcast.
send_broadcast(n) ==
    /\ CanSend(n)
    /\ \E b \in pending[n] :
         /\ pending' = [pending EXCEPT ![n] = pending[n] \ {b}]
         /\ bcast' = [bcast EXCEPT ![n] = Append(bcast[n], b)]
    /\ UNCHANGED <<up, actorFile, siteId, actorId, db, bookie, conn, lock,
                   task, published, committed, restarts, net, aux>>

(* ------------------- process_msg, handle_gossip (agent.rs) -------------- *)
\* What the remote actor wrote as its version v: every cell, with
\* col_version v.  A peer forwards the changeset it found impactful
\* (agent.rs:1100-1108), so a Change may arrive with any part of it.
RemoteVal(v) == v

RemoteChanges(v) ==
    {[cell |-> c, val |-> RemoteVal(v), col_version |-> v, db_version |-> v,
      site_id |-> RemoteActor] : c \in Cells}

EnvMsgs ==
    UNION {{Message(RemoteActor, v, cs, v) : cs \in SUBSET RemoteChanges(v)} :
              v \in 1..MaxRemoteVersion}

\* A process_msg that does not consult the Bookie.
AlreadySeen_Never(b, msg) == FALSE

\* agent.rs:1004-1010: the message is already known.
AlreadySeen(b, msg) == BookieContains(b, msg.actor_id, msg.version)

\* agent.rs:1026-1052: every change of the changeset is inserted; those that
\* impacted a row form the impactful changeset.  The changes of one
\* changeset are on distinct cells, so their order does not matter.
RECURSIVE ApplyChangeset(_, _, _)
ApplyChangeset(d, cs, pend) ==
    IF cs = {} THEN [db |-> d, impactful |-> {}]
    ELSE LET ch == CHOOSE x \in cs : TRUE
         IN  With(apply_remote_change(d, ch, pend), LAMBDA r :
             With(ApplyChangeset(r.db, cs \ {ch}, pend), LAMBDA rest :
                 [db |-> rest.db,
                  impactful |-> IF r.n > 0 THEN rest.impactful \cup {ch}
                                ELSE rest.impactful]))

\* agent.rs:1058-1062: Some(end_version) when db_version advanced.
DbVersionOf(start_version, end_version) ==
    IF end_version > start_version THEN end_version ELSE NoDbVersion

\* agent.rs:1100-1105: the message process_msg returns; `changeset` is by
\* then the binding of agent.rs:1020, the impactful changeset.
ReturnedMsg(msg, impactful) ==
    Message(msg.actor_id, msg.version, impactful, msg.ts)

\* handle_gossip is handed a batch; its messages are drawn one by one.
gossip_begin(n, t) ==
    /\ up[n]
    /\ task[n][t].pc = "idle"
    /\ \E k \in 1..MaxBatch :
         task' = [task EXCEPT ![n][t] = [IdleTask EXCEPT !.pc = "g_next", !.left = k]]
    /\ UNCHANGED <<up, actorFile, siteId, actorId, db, bookie, conn, lock,
                   pending, bcast, published, committed, restarts, net, aux>>

\* agent.rs:600-601: the next message of the batch is handed to process_msg.
gossip_take(n, t, msgs) ==
    /\ task[n][t].pc = "g_next"
    /\ task[n][t].left > 0
    /\ \E m \in msgs :
         task' = [task EXCEPT ![n][t] = [@ EXCEPT !.pc = "p_check", !.msg = m]]
    /\ UNCHANGED <<up, actorFile, siteId, actorId, db, bookie, conn, lock,
                   pending, bcast, published, committed, restarts, net, aux>>

gossip_next(n, t) == gossip_take(n, t, EnvMsgs)

\* agent.rs:1004-1010: process_msg of a message the Bookie contains
\* returns Ok(None).
process_msg_seen(n, t) ==
    /\ task[n][t].pc = "p_check"
    /\ AlreadySeen(bookie[n], task[n][t].msg)
    /\ task' = [task EXCEPT ![n][t] = [@ EXCEPT !.pc = "p_none"]]
    /\ UNCHANGED <<up, actorFile, siteId, actorId, db, bookie, conn, lock,
                   pending, bcast, published, committed, restarts, net, aux>>

\* agent.rs:601-603: handle_gossip collects nothing for a None.
gossip_skip(n, t) ==
    /\ task[n][t].pc = "p_none"
    /\ task' = [task EXCEPT ![n][t] =
                  [@ EXCEPT !.pc = "g_next", !.left = @ - 1, !.msg = None]]
    /\ UNCHANGED <<up, actorFile, siteId, actorId, db, bookie, conn, lock,
                   pending, bcast, published, committed, restarts, net, aux>>

\* agent.rs:1004-1018: a message the Bookie does not contain waits for the
\* connection.
process_msg_new(n, t) ==
    /\ task[n][t].pc = "p_check"
    /\ ~AlreadySeen(bookie[n], task[n][t].msg)
    /\ task' = [task EXCEPT ![n][t] = [@ EXCEPT !.pc = "p_conn"]]
    /\ UNCHANGED <<up, actorFile, siteId, actorId, db, bookie, conn, lock,
                   pending, bcast, published, committed, restarts, net, aux>>

\* agent.rs:1018-1024: pool.get(), conn.transaction(), SELECT crsql_dbversion().
process_msg_begin(n, t) ==
    /\ task[n][t].pc = "p_conn"
    /\ CanGetConn(conn[n])
    /\ conn' = [conn EXCEPT ![n] = conn[n] \cup {t}]
    /\ task' = [task EXCEPT ![n][t] =
                  [@ EXCEPT !.pc = "p_tx", !.start = crsql_dbversion(db[n]),
                            !.tx = db[n]]]
    /\ UNCHANGED <<up, actorFile, siteId, actorId, db, bookie, lock, pending,
                   bcast, published, committed, restarts, net, aux>>

\* A transaction that commits the row changes without the bookkeeping row.
IngestTx_RowsOnly(d, start_version, msg) ==
    With(ApplyChangeset(d, msg.changeset, start_version + 1), LAMBDA ap :
        IF NoChangeRows(ap.db) \/ BkHas(ap.db, msg.actor_id, msg.version)
        THEN [ok |-> FALSE, db |-> d, dbv |-> NoDbVersion, impactful |-> {}]
        ELSE [ok |-> TRUE, db |-> ap.db,
              dbv |-> DbVersionOf(start_version, MaxDbVersionOfChanges(ap.db)),
              impactful |-> ap.impactful])

\* What the transaction of agent.rs:1026-1066 leaves, or that it fails:
\* MAX(db_version) of no row is NULL, the bookkeeping row may exist already.
IngestTx(d, start_version, msg) ==
    With(ApplyChangeset(d, msg.changeset, start_version + 1), LAMBDA ap :
        IF NoChangeRows(ap.db) \/ BkHas(ap.db, msg.actor_id, msg.version)
        THEN [ok |-> FALSE, db |-> d, dbv |-> NoDbVersion, impactful |-> {}]
        ELSE With(DbVersionOf(start_version, MaxDbVersionOfChanges(ap.db)),
                  LAMBDA db_version :
                  [ok |-> TRUE,
                   db |-> [ap.db EXCEPT !.bk = @ \cup
                             {BkRow(msg.actor_id, msg.version, db_version, msg.ts)}],
                   dbv |-> db_version,
                   impactful |-> ap.impactful]))

\* agent.rs:991-1112 run from call to return with no other handler in
\* between, on the node state st = [db, bookie]: the state it leaves and
\* what it returns.
process_msg(st, msg) ==
    IF AlreadySeen(st.bookie, msg)
    THEN [ret |-> "None", db |-> st.db, bookie |-> st.bookie,
          published |-> st.published, out |-> <<>>]
    ELSE With(IngestTx(st.db, crsql_dbversion(st.db), msg), LAMBDA r :
             IF r.ok
             THEN [ret |-> "Some", db |-> r.db,
                   bookie |-> BookieInsert(st.bookie, msg.actor_id, msg.version,
                                           r.dbv, msg.ts),
                   published |-> IF r.dbv # NoDbVersion
                                 THEN [changes |-> r.impactful, db_version |-> r.dbv]
                                 ELSE st.published,
                   out |-> <<ReturnedMsg(msg, r.impactful)>>]
             ELSE [ret |-> "Err", db |-> st.db, bookie |-> st.bookie,
                   published |-> st.published, out |-> <<>>])

\* The state of node n that process_msg and make_broadcastable_changes work on.
NodeState(n) == [db |-> db[n], bookie |-> bookie[n], published |-> published[n]]

\* agent.rs:1026-1069: the transaction commits; the connection is returned.
process_msg_commit(n, t) ==
    /\ task[n][t].pc = "p_tx"
    /\ LET me == task[n][t]
           r == IngestTx(me.tx, me.start, me.msg)
       IN  /\ r.ok
           /\ db' = [db EXCEPT ![n] = r.db]
           /\ task' = [task EXCEPT ![n][t] =
                         [me EXCEPT !.pc = "p_book", !.tx = EmptyDb,
                                    !.dbv = r.dbv, !.impactful = r.impactful]]
    /\ ReleaseConn(n, t)
    /\ UNCHANGED <<up, actorFile, siteId, actorId, bookie, lock, pending,
                   bcast, published, committed, restarts, net, aux>>

\* agent.rs:1021-1069 failing (a statement or the commit): the transaction
\* is rolled back, process_msg returns the error and handle_gossip ends
\* with it (agent.rs:601), dropping what it had collected for rebroadcast.
process_msg_fails(n, t) ==
    /\ task[n][t].pc = "p_tx"
    /\ Finish(n, t)
    /\ ReleaseConn(n, t)
    /\ UNCHANGED <<up, actorFile, siteId, actorId, db, bookie, lock, pending,
                   bcast, published, committed, restarts, net, aux>>

\* agent.rs:1071-1108: the subscription hook gets the impactful changeset,
\* the Bookie gets the version, the message is returned and collected.
process_msg_book(n, t) ==
    /\ task[n][t].pc = "p_book"
    /\ LET me == task[n][t]
       IN  /\ published' = [published EXCEPT ![n] =
                IF me.dbv # NoDbVersion
                THEN [changes |-> me.impactful, db_version |-> me.dbv]
                ELSE published[n]]
           /\ bookie' = [bookie EXCEPT ![n] =
                BookieInsert(bookie[n], me.msg.actor_id, me.msg.version, me.dbv, me.msg.ts)]
           /\ task' = [task EXCEPT ![n][t] =
                [me EXCEPT !.pc = "g_next", !.left = @ - 1, !.msg = None,
                           !.impactful = {}, !.dbv = NoDbVersion, !.start = 0,
                           !.out = Append(@, ReturnedMsg(me.msg, me.impactful))]]
    /\ UNCHANGED <<up, actorFile, siteId, actorId, db, conn, lock, pending,
                   bcast, committed, restarts, net, aux>>

\* agent.rs:606-616: every collected message is sent as a Rebroadcast.
gossip_rebroadcast(n, t) ==
    /\ task[n][t].pc = "g_next"
    /\ task[n][t].left = 0
    /\ IF task[n][t].out = <<>>
       THEN /\ Finish(n, t)
            /\ UNCHANGED bcast
       ELSE /\ CanSend(n)
            /\ bcast' = [bcast EXCEPT ![n] =
                 Append(@, [kind |-> "Rebroadcast", msg |-> Head(task[n][t].out)])]
            /\ task' = [task EXCEPT ![n][t] = [@ EXCEPT !.out = Tail(@)]]
    /\ UNCHANGED <<up, actorFile, siteId, actorId, db, bookie, conn, lock,
                   pending, published, committed, restarts, net, aux>>

(* --------------------------- specification ------------------------------ *)
Next ==
    \E n \in Nodes :
        \/ setup(n)
        \/ stop(n)
        \/ send_broadcast(n)
        \/ \E t \in Tasks :
            \/ write_begin(n, t)
            \/ write_closure_fails(n, t)
            \/ write_too_many_rows(n, t)
            \/ write_bad_request(n, t)
            \/ write_commit(n, t)
            \/ write_finish(n, t)
            \/ gossip_begin(n, t)
            \/ gossip_next(n, t)
            \/ process_msg_seen(n, t)
            \/ gossip_skip(n, t)
            \/ process_msg_new(n, t)
            \/ process_msg_begin(n, t)
            \/ process_msg_commit(n, t)
            \/ process_msg_fails(n, t)
            \/ process_msg_book(n, t)
            \/ gossip_rebroadcast(n, t)

Spec == Init /\ [][Next]_vars

(* ------------------------------ a cluster ------------------------------- *)
(* Two agents that know each other as members.  Each handler runs from     *)
(* call to return in one step; the broadcaster and the server side of sync *)
(* follow the description of the BroadcastManager and the SyncEngine.      *)
ClusterNodes == {"n1", "n2"}
ClusterVals == {1, 2}

\* One statement on one cell: a later write may overwrite an earlier one.
ClusterStatements == {<<[cell |-> "k1", val |-> v]>> : v \in ClusterVals}

InitCluster ==
    /\ up = [n \in ClusterNodes |-> FALSE]
    /\ actorFile = [n \in ClusterNodes |-> None]
    /\ siteId = [n \in ClusterNodes |-> None]
    /\ actorId = [n \in ClusterNodes |-> None]
    /\ db = [n \in ClusterNodes |-> EmptyDb]
    /\ bookie = [n \in ClusterNodes |-> {}]
    /\ conn = [n \in ClusterNodes |-> {}]
    /\ lock = [n \in ClusterNodes |-> None]
    /\ task = [n \in ClusterNodes |-> [t \in Tasks |-> IdleTask]]
    /\ pending = [n \in ClusterNodes |-> {}]
    /\ bcast = [n \in ClusterNodes |-> <<>>]
    /\ published = [n \in ClusterNodes |-> None]
    /\ committed = [n \in ClusterNodes |-> <<>>]
    /\ restarts = [n \in ClusterNodes |-> 0]
    /\ net = [n \in ClusterNodes |-> {}]
    /\ InitAux(ClusterNodes)

\* http.rs:69-166 run from the return of the closure, which left `ran`, to
\* the return of the function with no other handler in between: the state
\* it leaves, what it sends to tx_bcast, its window.
commit_changes(st, actor, ran) ==
    LET start_version == crsql_dbversion(st.db)
        version == NextVersion(st.bookie, actor)
        changes == LocalChangesSince(ran.db, start_version, actor)
        end_version == EndVersion(start_version, changes)
        advanced == end_version > start_version
        db_version == IF advanced THEN end_version ELSE NoDbVersion
        row == BkRow(actor, version, end_version, new_timestamp(version, 1))
        ts == new_timestamp(version, 2)
    IN  IF TooManyRowsImpacted(ran.n) \/ (advanced /\ BkHas(ran.db, actor, version))
        THEN [ret |-> "Err", db |-> st.db, bookie |-> st.bookie,
              published |-> st.published, sent |-> <<>>, window |-> <<>>]
        ELSE [ret |-> "Ok",
              db |-> [ran.db EXCEPT !.bk = IF advanced THEN @ \cup {row} ELSE @],
              bookie |-> IF HasChanges(changes)
                         THEN BookieInsert(st.bookie, actor, version, db_version, ts)
                         ELSE st.bookie,
              published |-> IF HasChanges(changes) /\ db_version # NoDbVersion
                            THEN [changes |-> changes, db_version |-> db_version]
                            ELSE st.published,
              sent |-> IF HasChanges(changes)
                       THEN <<[kind |-> "AddBroadcast",
                               msg |-> Message(actor, version, changes, ts)]>>
                       ELSE <<>>,
              window |-> IF HasChanges(changes)
                         THEN <<[version |-> version, start |-> start_version,
                                 end |-> end_version]>>
                         ELSE <<>>]

\* http.rs:48-168 with a closure that runs the statements stmts.
make_broadcastable_changes(st, actor, stmts) ==
    commit_changes(st, actor,
                   RunStatements(st.db, stmts, crsql_dbversion(st.db) + 1))

\* A local write through the API on node n.
cluster_write(n) ==
    /\ up[n]
    /\ Len(committed[n]) < MaxWrites
    /\ \E stmts \in ClusterStatements :
         \E r \in {make_broadcastable_changes(NodeState(n), actorId[n], stmts)} :
             /\ r.ret = "Ok"
             /\ db' = [db EXCEPT ![n] = r.db]
             /\ bookie' = [bookie EXCEPT ![n] = r.bookie]
             /\ published' = [published EXCEPT ![n] = r.published]
             /\ bcast' = [bcast EXCEPT ![n] = @ \o r.sent]
             /\ committed' = [committed EXCEPT ![n] = @ \o r.window]
    /\ UNCHANGED <<up, actorFile, siteId, actorId, conn, lock, task, pending,
                   restarts, net, aux>>

\* The members a broadcast is transmitted to: every other live member, but
\* not the originator of a message that is rebroadcast.
Recipients(n, b) ==
    {m \in ClusterNodes \ {n} :
        up[m] /\ (b.kind = "Rebroadcast" => actorId[m] # b.msg.actor_id)}

\* The broadcaster takes the next input of tx_bcast and transmits it; a
\* datagram may be lost on its way.
cluster_broadcast(n) ==
    /\ up[n]
    /\ bcast[n] # <<>>
    /\ LET b == Head(bcast[n])
       IN  \E got \in SUBSET Recipients(n, b) :
             net' = [m \in ClusterNodes |->
                       IF m \in got THEN net[m] \cup {b.msg} ELSE net[m]]
    /\ bcast' = [bcast EXCEPT ![n] = Tail(@)]
    /\ UNCHANGED <<up, actorFile, siteId, actorId, db, bookie, conn, lock,
                   task, pending, published, committed, restarts, aux>>

\* agent.rs:590-617: handle_gossip of one received message.
cluster_gossip(n) ==
    /\ up[n]
    /\ \E m \in net[n] :
         \E r \in {process_msg(NodeState(n), m)} :
             /\ net' = [net EXCEPT ![n] = @ \ {m}]
             /\ db' = [db EXCEPT ![n] = r.db]
             /\ bookie' = [bookie EXCEPT ![n] = r.bookie]
             /\ published' = [published EXCEPT ![n] = r.published]
             /\ bcast' = [bcast EXCEPT ![n] =
                   IF r.out = <<>> THEN @
                   ELSE Append(@, [kind |-> "Rebroadcast", msg |-> r.out[1]])]
    /\ UNCHANGED <<up, actorFile, siteId, actorId, conn, lock, task, pending,
                   committed, restarts, aux>>
\* The versions the server has and the requester's summary lacks.
SyncNeeds(mine, theirs) ==
    {e \in theirs : ~BookieContains(mine, e.actor_id, e.version)}

\* The changeset of a version rebuilt by the server: the rows its change
\* log holds at the db_version recorded for the version.
ChangesAt(d, dbv, actor) ==
    IF dbv = NoDbVersion THEN {}
    ELSE {[cell |-> c, val |-> d.clock[c].val, col_version |-> d.clock[c].cv,
           db_version |-> dbv,
           site_id |-> IF d.clock[c].site = Null THEN actor ELSE d.clock[c].site] :
             c \in {x \in Cells : HasRow(d, x) /\ d.clock[x].dbv = dbv}}

\* The messages of one actor's needed versions, in ascending version order.
RECURSIVE VersionStream(_, _, _)
VersionStream(needs, d, actor) ==
    IF needs = {} THEN <<>>
    ELSE LET e == CHOOSE x \in needs : \A y \in needs : x.version <= y.version
         IN  <<Message(e.actor_id, e.version,
                       ChangesAt(d, e.db_version, actor), e.ts)>>
                 \o VersionStream(needs \ {e}, d, actor)

\* The response the server streams: actor after actor, first the actor
\* `first`, each actor's versions in ascending order.
SyncStream(needs, d, actor, first) ==
    VersionStream({e \in needs : e.actor_id = first}, d, actor)
        \o VersionStream({e \in needs : e.actor_id # first}, d, actor)

\* The inputs handle_sync_receive would submit if it passed on what
\* process_msg returns.
sync_submits_Returned(out) ==
    [i \in 1..Len(out) |-> [kind |-> "Rebroadcast", msg |-> out[i]]]

\* agent.rs:1329: `process_msg(agent, msg).await?;` drops the returned
\* message; nothing is sent to tx_bcast.
sync_submits(out) == <<>>

\* agent.rs:1316-1331: every streamed message goes through process_msg; the
\* first error ends the sync.  `sent` collects what is sent to tx_bcast.
RECURSIVE SyncIngest(_, _)
SyncIngest(st, stream) ==
    IF stream = <<>> THEN st
    ELSE With(process_msg(st, Head(stream)), LAMBDA r :
             IF r.ret = "Err" THEN st
             ELSE SyncIngest([db |-> r.db, bookie |-> r.bookie,
                              published |-> r.published,
                              sent |-> st.sent \o sync_submits(r.out)],
                             Tail(stream)))

\* agent.rs:1149-1334: one sync cycle of node n with the member p.
cluster_sync(n, p) ==
    /\ n # p
    /\ up[n] /\ up[p]
    /\ LET needs == SyncNeeds(bookie[n], bookie[p])
       IN  \E first \in {e.actor_id : e \in needs} :
             \E st \in {SyncIngest([db |-> db[n], bookie |-> bookie[n],
                                   published |-> published[n], sent |-> <<>>],
                                  SyncStream(needs, db[p], actorId[p], first))} :
                 /\ db' = [db EXCEPT ![n] = st.db]
                 /\ bookie' = [bookie EXCEPT ![n] = st.bookie]
                 /\ published' = [published EXCEPT ![n] = st.published]
                 /\ bcast' = [bcast EXCEPT ![n] = @ \o st.sent]
    /\ UNCHANGED <<up, actorFile, siteId, actorId, conn, lock, task, pending,
                   committed, restarts, net, aux>>

ClusterNext ==
    \/ \E n \in ClusterNodes :
         \/ setup(n)
         \/ cluster_write(n)
         \/ cluster_broadcast(n)
         \/ cluster_gossip(n)
    \/ \E n \in ClusterNodes : \E p \in ClusterNodes : cluster_sync(n, p)

\* Setup completes, the broadcaster and the gossip handler keep running, and
\* sync cycles keep coming (agent.rs:1336-1363).
ClusterSpec ==
    /\ InitCluster
    /\ [][ClusterNext]_vars
    /\ \A n \in ClusterNodes :
         /\ WF_vars(setup(n))
         /\ WF_vars(cluster_broadcast(n))
         /\ WF_vars(cluster_gossip(n))
         /\ \A p \in ClusterNodes : WF_vars(cluster_sync(n, p))

\* The SyncSummary of a Bookie: heads, and the versions below a head that
\* are missing.
Heads(b) == [a \in {e.actor_id : e \in b} |-> BookieLast(b, a)]

Need(b) ==
    {<<a, v>> \in {e.actor_id : e \in b} \X (1..MaxWrites) :
        v < BookieLast(b, a) /\ ~BookieContains(b, a, v)}

\* The rows of the tracked tables: per cell its value and col_version.
Rows(d) == [c \in Cells |-> <<d.clock[c].val, d.clock[c].cv>>]

Converged ==
    \A n \in ClusterNodes : \A m \in ClusterNodes :
        /\ Heads(bookie[n]) = Heads(bookie[m])
        /\ Need(bookie[n]) = {}
        /\ Rows(db[n]) = Rows(db[m])

(* ------------------- UDP ingress (agent.rs:338-382, 863-989) ------------ *)
MaxDatagrams == 2   \* datagrams a node receives
MaxFrames == 2      \* frames in the body of one broadcast datagram

\* A frame: the bytes of a message, intact or corrupted on the way.
Frame(m, corrupt) == [msg |-> m, corrupt |-> corrupt]

\* A dispatch that takes every byte but 0 for a broadcast.
PayloadKindOf_NoUnknown(b) ==
    CASE b = 0 -> "Swim"
      [] b = 1 -> "Broadcast"
      [] OTHER -> "PriorityBroadcast"

\* agent.rs:875-880: the PayloadKind of the first byte.
PayloadKindOf(b) ==
    CASE b = 0 -> "Swim"
      [] b = 1 -> "Broadcast"
      [] b = 2 -> "PriorityBroadcast"
      [] OTHER -> "Unknown"

\* The first bytes tried: the three kinds, and two bytes of no kind.
FirstBytes == {0, 1, 2, 3, 255}

\* The frames a peer may put in a broadcast body for node n: a Change of
\* the remote actor, a Change of n's own actor coming back, a corrupt frame.
Frames(n) ==
    {Frame(m, c) :
        m \in {Message(RemoteActor, v, RemoteChanges(v), v) : v \in 1..MaxRemoteVersion}
                 \cup {Message(actorId[n], 1, {}, 1)},
        c \in BOOLEAN}

FrameSeqs(n) == UNION {[1..k -> Frames(n)] : k \in 0..MaxFrames}

Datagrams(n) ==
    {Datagram(<<>>, <<>>)}
        \cup {Datagram(<<b>>, fs) : b \in FirstBytes, fs \in FrameSeqs(n)}

\* Message::decode of the buffer: Ok(None) when no frame is left, Err for a
\* frame that does not decode, Ok(Some(msg)) and the rest of the buffer.
MessageDecode(buf) ==
    IF buf = <<>> THEN [r |-> "None", buf |-> buf]
    ELSE IF Head(buf).corrupt THEN [r |-> "Err", buf |-> Tail(buf)]
    ELSE [r |-> "Some", msg |-> Head(buf).msg, buf |-> Tail(buf)]

\* agent.rs:916-989: the messages handle_broadcast sends to bcast_tx.  The
\* loop ends at Ok(None) and at the first Err (agent.rs:976-985); a Change
\* the Bookie contains is skipped, one of the own actor is not forwarded.
\* A test of the sender that lets every actor through.
NotSelf_Anyone(actor_id, self_actor_id) == TRUE

\* agent.rs:943 and 962: `actor_id != self_actor_id`.
NotSelf(actor_id, self_actor_id) == actor_id # self_actor_id

RECURSIVE handle_broadcast(_, _, _)
handle_broadcast(buf, self_actor_id, b) ==
    LET d == MessageDecode(buf)
    IN  IF d.r # "Some" THEN <<>>
        ELSE IF BookieContains(b, d.msg.actor_id, d.msg.version)
             THEN handle_broadcast(d.buf, self_actor_id, b)
        ELSE IF NotSelf(d.msg.actor_id, self_actor_id)
             THEN <<d.msg>> \o handle_broadcast(d.buf, self_actor_id, b)
        ELSE handle_broadcast(d.buf, self_actor_id, b)

\* agent.rs:863-914 with kind = None, from call to return: what it returns,
\* what it sends to foca_tx and to bcast_tx.  get_u8 of an empty payload
\* panics, which ends the task spawned for the datagram.
handle_payload(payload, actor_id, b) ==
    IF payload.first = <<>> THEN [ret |-> "Panic", foca |-> <<>>, bcast |-> <<>>]
    ELSE LET kind == PayloadKindOf(payload.first[1])
             rest == payload.rest
         IN  CASE kind = "Swim" ->
                    [ret |-> "Ok", foca |-> <<[kind |-> "Data", payload |-> rest]>>,
                     bcast |-> <<>>]
               [] kind \in {"Broadcast", "PriorityBroadcast"} ->
                    [ret |-> "Ok", foca |-> <<>>,
                     bcast |-> handle_broadcast(rest, actor_id, b)]
               [] OTHER ->
                    [ret |-> "Err", foca |-> <<>>, bcast |-> <<>>]

\* agent.rs:345-374: a datagram arrives and the task spawned for it runs
\* handle_payload.
recv(n, payload) ==
    /\ up[n]
    /\ datagrams[n] < MaxDatagrams
    /\ \E r \in {handle_payload(payload, actorId[n], bookie[n])} :
         /\ foca_tx' = [foca_tx EXCEPT ![n] = @ \o r.foca]
         /\ bcast_msg_tx' = [bcast_msg_tx EXCEPT ![n] = @ \o r.bcast]
         /\ handled' = [handled EXCEPT ![n] = [payload |-> payload, ret |-> r.ret]]
    /\ datagrams' = [datagrams EXCEPT ![n] = @ + 1]
    /\ UNCHANGED <<calls, loops, core, membership, routes, sending>>

recv_from(n) == \E payload \in Datagrams(n) : recv(n, payload)

\* agent.rs:523-535 and 590-617: the main loop takes a message of the
\* ingest channel and handle_gossip processes it.
run_gossip(n) ==
    /\ up[n]
    /\ bcast_msg_tx[n] # <<>>
    /\ \E r \in {process_msg(NodeState(n), Head(bcast_msg_tx[n]))} :
         /\ db' = [db EXCEPT ![n] = r.db]
         /\ bookie' = [bookie EXCEPT ![n] = r.bookie]
         /\ published' = [published EXCEPT ![n] = r.published]
         /\ bcast' = [bcast EXCEPT ![n] =
               IF r.out = <<>> THEN @
               ELSE Append(@, [kind |-> "Rebroadcast", msg |-> r.out[1]])]
    /\ bcast_msg_tx' = [bcast_msg_tx EXCEPT ![n] = Tail(@)]
    /\ UNCHANGED <<calls, loops, up, actorFile, siteId, actorId, conn, lock, task, pending,
                   committed, restarts, net, foca_tx, handled, datagrams,
                   membership, routes, sending>>

IngressNext ==
    \E n \in Nodes :
        \/ setup(n)
        \/ recv_from(n)
        \/ run_gossip(n)

IngressSpec == Init /\ [][IngressNext]_vars

(* ------------------- membership (agent.rs:619-672) ---------------------- *)
MaxNotifications == 4   \* notifications the SWIM runtime sends to a node

\* The actors SWIM may report.
Peers == {RemoteActor, "r2"}

\* Notification<Actor> (agent.rs:627-669).
Notifications ==
    {[kind |-> k, actor |-> a] : k \in {"MemberUp", "MemberDown"}, a \in Peers}
        \cup {[kind |-> k, actor |-> None] : k \in {"Active", "Idle", "Defunct", "Rejoin"}}

\* Members::add_member: the actor is inserted; true when it was not there.
add_member(ms, actor) == [members |-> ms \cup {actor}, added |-> actor \notin ms]

\* Members::remove_member: the actor is removed; true when it was there.
remove_member(ms, actor) == [members |-> ms \ {actor}, removed |-> actor \in ms]

\* agent.rs:635-638 and 650-653: the cluster size is pushed to SWIM when
\* the length converts (a size of 0 does not).
ClusterSize(ms) ==
    IF Cardinality(ms) > 0
    THEN <<[kind |-> "ClusterSize", payload |-> <<Cardinality(ms)>>]>>
    ELSE <<>>

\* A handler that reports every MemberUp it is told of.
EmitsUp_Always(added) == TRUE

\* agent.rs:631: `if added`.
EmitsUp(added) == added

\* agent.rs:646: `if removed`.
EmitsDown(removed) == removed

\* agent.rs:625-671, one notification from recv to the next recv: what it
\* leaves of the members, what it sends to foca_tx and to member_events.
handle_notification(ms, note) ==
    CASE note.kind = "MemberUp" ->
            LET r == add_member(ms, note.actor)
            IN  IF EmitsUp(r.added)
                THEN [members |-> r.members, foca |-> ClusterSize(r.members),
                      events |-> <<[kind |-> "Up", actor |-> note.actor]>>]
                ELSE [members |-> r.members, foca |-> <<>>, events |-> <<>>]
      [] note.kind = "MemberDown" ->
            LET r == remove_member(ms, note.actor)
            IN  IF EmitsDown(r.removed)
                THEN [members |-> r.members, foca |-> ClusterSize(r.members),
                      events |-> <<[kind |-> "Down", actor |-> note.actor]>>]
                ELSE [members |-> r.members, foca |-> <<>>, events |-> <<>>]
      [] OTHER -> [members |-> ms, foca |-> <<>>, events |-> <<>>]

notifications_of(n, notes) ==
    /\ up[n]
    /\ Len(notified[n]) < MaxNotifications
    /\ \E note \in notes :
         \E r \in {handle_notification(members[n], note)} :
             /\ members' = [members EXCEPT ![n] = r.members]
             /\ foca_tx' = [foca_tx EXCEPT ![n] = @ \o r.foca]
             /\ member_events' = [member_events EXCEPT ![n] = @ \o r.events]
             /\ notified' = [notified EXCEPT ![n] = Append(@, note)]
    /\ UNCHANGED <<calls, loops, core, ingress, routes, sending>>

handle_notifications(n) == notifications_of(n, Notifications)

MembershipNext ==
    \E n \in Nodes :
        \/ setup(n)
        \/ handle_notifications(n)

MembershipSpec == Init /\ [][MembershipNext]_vars

(* ------------------- the peer API routes (agent.rs:297-323) ------------- *)
SyncConcurrency == 3          \* ConcurrencyLimitLayer of /v1/sync
BroadcastConcurrency == 512   \* ConcurrencyLimitLayer of /v1/broadcast
BroadcastBuffer == 1024       \* BufferLayer of /v1/broadcast

\* A limit that lets one request too many in.
ConcurrencyLimitReady_OneMore(handling, limit) == handling <= limit

\* ConcurrencyLimitLayer::new(limit): the service is ready while fewer
\* than limit requests hold a permit.
ConcurrencyLimitReady(handling, limit) == handling < limit

\* BufferLayer::new(bound): the buffer takes a request while fewer than
\* bound requests wait in it.
BufferReady(waiting, bound) == waiting < bound

Answer(route, answer) == [route |-> route, answer |-> answer]

\* agent.rs:300-309: LoadShedLayer over ConcurrencyLimitLayer(3).  A
\* request finds the limit ready and is handled, or LoadShed fails it and
\* HandleErrorLayer answers 503.
sync_request(n) ==
    /\ up[n]
    /\ peer_api' = [peer_api EXCEPT ![n] =
         IF ConcurrencyLimitReady(@.sync, SyncConcurrency)
         THEN [@ EXCEPT !.sync = @ + 1, !.last = Answer("sync", "handling")]
         ELSE [@ EXCEPT !.last = Answer("sync", "503")]]
    /\ UNCHANGED <<calls, loops, core, foca_tx, ingress, membership, sending>>

\* peer_api_v1_sync_post ends: its permit is released.
sync_response(n) ==
    /\ up[n]
    /\ peer_api[n].sync > 0
    /\ peer_api' = [peer_api EXCEPT ![n] =
         [@ EXCEPT !.sync = @ - 1, !.last = Answer("sync", "done")]]
    /\ UNCHANGED <<calls, loops, core, foca_tx, ingress, membership, sending>>

\* agent.rs:313-322: LoadShedLayer over BufferLayer(1024) over
\* ConcurrencyLimitLayer(512).  A request enters the buffer when the
\* buffer is ready, and LoadShed fails it (503) when it is not; the worker
\* of the buffer hands the requests on, in order, whenever the limit is
\* ready, so a request entering an empty buffer with the limit ready is
\* handled at once.
broadcast_request(n) ==
    /\ up[n]
    /\ peer_api' = [peer_api EXCEPT ![n] =
         IF ~BufferReady(@.buffered, BroadcastBuffer)
         THEN [@ EXCEPT !.last = Answer("broadcast", "503")]
         ELSE IF @.buffered = 0
                 /\ ConcurrencyLimitReady(@.broadcast, BroadcastConcurrency)
         THEN [@ EXCEPT !.broadcast = @ + 1, !.last = Answer("broadcast", "handling")]
         ELSE [@ EXCEPT !.buffered = @ + 1, !.last = Answer("broadcast", "queued")]]
    /\ UNCHANGED <<calls, loops, core, foca_tx, ingress, membership, sending>>

\* peer_api_v1_broadcast ends: its permit is released, and the worker of
\* the buffer hands the next waiting request on.
broadcast_response(n) ==
    /\ up[n]
    /\ peer_api[n].broadcast > 0
    /\ peer_api' = [peer_api EXCEPT ![n] =
         IF @.buffered > 0
            /\ ConcurrencyLimitReady(@.broadcast - 1, BroadcastConcurrency)
         THEN [@ EXCEPT !.buffered = @ - 1, !.last = Answer("broadcast", "done")]
         ELSE [@ EXCEPT !.broadcast = @ - 1, !.last = Answer("broadcast", "done")]]
    /\ UNCHANGED <<calls, loops, core, foca_tx, ingress, membership, sending>>

RoutesNext ==
    \E n \in Nodes :
        \/ setup(n)
        \/ sync_request(n)
        \/ sync_response(n)
        \/ broadcast_request(n)
        \/ broadcast_response(n)

RoutesSpec == Init /\ [][RoutesNext]_vars

(* ------------------- sending to tx_bcast (agent.rs:216) ----------------- *)
\* agent.rs:520: a gossip batch holds up to 512 messages, each of which
\* handle_gossip may have to rebroadcast.
GossipChunk == 512

\* The inputs a submitter has to send: one for the send task of a local
\* write, one or a whole batch for handle_gossip.
BatchSizes(s) == IF s = "write" THEN {1} ELSE {1, GossipChunk}

\* The inputs tx_bcast can take now.
Free(n) == BcastCapacity - (Len(bcast[n]) + tx_bcast[n].backlog)

\* Sender::send(input).await of a bounded channel, for each of k inputs in
\* turn (http.rs:148-157, agent.rs:606-611): Err when the receiver is
\* gone, the input queued when there is capacity, and otherwise the sender
\* waits for capacity with the inputs it has left.
send_await(n, k) ==
    IF tx_bcast[n].closed THEN [pc |-> "failed", left |-> 0, queued |-> 0]
    ELSE IF Free(n) >= k THEN [pc |-> "sent", left |-> 0, queued |-> k]
    ELSE [pc |-> "waiting", left |-> k - Free(n), queued |-> Free(n)]

Sending(n, s, k) ==
    \E r \in {send_await(n, k)} :
        /\ senders' = [senders EXCEPT ![n][s] = [pc |-> r.pc, left |-> r.left]]
        /\ tx_bcast' = [tx_bcast EXCEPT ![n].backlog = @ + r.queued]

\* http.rs:147-159 and agent.rs:606-611: submitter s sends its inputs.
submit(n, s) ==
    /\ up[n]
    /\ senders[n][s].pc = "idle"
    /\ \E k \in BatchSizes(s) : Sending(n, s, k)
    /\ UNCHANGED <<calls, loops, core, foca_tx, ingress, membership, routes>>

\* The send of a waiting submitter goes on once the channel has capacity
\* or the receiver is gone.
send_resumes(n, s) ==
    /\ senders[n][s].pc = "waiting"
    /\ tx_bcast[n].closed \/ Free(n) > 0
    /\ Sending(n, s, senders[n][s].left)
    /\ UNCHANGED <<calls, loops, core, foca_tx, ingress, membership, routes>>

\* http.rs:158-160 and agent.rs:611-613: the result of the send is logged
\* when it is an error, and the submitter goes on.
submitter_proceeds(n, s) ==
    /\ senders[n][s].pc \in {"sent", "failed"}
    /\ senders' = [senders EXCEPT ![n][s] = IdleSender]
    /\ UNCHANGED <<calls, loops, core, foca_tx, ingress, membership, routes, tx_bcast>>

\* The broadcaster takes an input of rx_bcast. The slot it frees goes to
\* a sender that waits for capacity, when there is one (the channel serves
\* its waiting senders first), and that sender goes on with the inputs it
\* has left.
broadcaster_recv(n) ==
    /\ up[n]
    /\ ~tx_bcast[n].closed
    /\ tx_bcast[n].backlog > 0
    /\ IF \E s \in Submitters : senders[n][s].pc = "waiting"
       THEN /\ \E s \in Submitters :
                 /\ senders[n][s].pc = "waiting"
                 /\ senders' = [senders EXCEPT ![n][s] =
                        IF @.left = 1 THEN [pc |-> "sent", left |-> 0]
                        ELSE [pc |-> "waiting", left |-> @.left - 1]]
            /\ UNCHANGED tx_bcast
       ELSE /\ tx_bcast' = [tx_bcast EXCEPT ![n].backlog = @ - 1]
            /\ UNCHANGED senders
    /\ UNCHANGED <<calls, loops, core, foca_tx, ingress, membership, routes>>

\* The broadcaster ends (the tripwire) and drops rx_bcast with what the
\* channel holds.
broadcaster_stops(n) ==
    /\ up[n]
    /\ ~tx_bcast[n].closed
    /\ tx_bcast' = [tx_bcast EXCEPT ![n] = [backlog |-> 0, closed |-> TRUE]]
    /\ bcast' = [bcast EXCEPT ![n] = <<>>]
    /\ UNCHANGED <<calls, loops, up, actorFile, siteId, actorId, db, bookie, conn, lock, task,
                   pending, published, committed, restarts, net, foca_tx,
                   ingress, membership, routes, senders>>

SendNext ==
    \E n \in Nodes :
        \/ setup(n)
        \/ broadcaster_recv(n)
        \/ broadcaster_stops(n)
        \/ \E s \in Submitters :
            \/ submit(n, s)
            \/ send_resumes(n, s)
            \/ submitter_proceeds(n, s)

SendSpec == Init /\ [][SendNext]_vars

(* ------------------- handing a local write to the broadcaster ----------- *)
\* A send task that takes the version back out of the Bookie when the
\* send fails.
bookie_after_send_error_Forgets(b, input) ==
    {e \in b : ~(e.actor_id = input.msg.actor_id /\ e.version = input.msg.version)}

\* http.rs:158-160: the error of the send is logged, nothing else.
bookie_after_send_error(b, input) == b

\* One statement on any cell with any of two values: a later write may
\* overwrite an earlier one.
ApiStatements == {<<[cell |-> c, val |-> v]>> : c \in Cells, v \in ClusterVals}

\* A local write through the API, from call to return; its send task is
\* spawned and has not run yet.
api_write(n) ==
    /\ up[n]
    /\ Len(committed[n]) < MaxWrites
    /\ \E stmts \in ApiStatements :
         \E r \in {make_broadcastable_changes(NodeState(n), actorId[n], stmts)} :
             /\ r.ret = "Ok"
             /\ db' = [db EXCEPT ![n] = r.db]
             /\ bookie' = [bookie EXCEPT ![n] = r.bookie]
             /\ published' = [published EXCEPT ![n] = r.published]
             /\ pending' = [pending EXCEPT ![n] = @ \cup {r.sent[i] : i \in DOMAIN r.sent}]
             /\ committed' = [committed EXCEPT ![n] = @ \o r.window]
    /\ UNCHANGED <<loops, up, actorFile, siteId, actorId, conn, lock, task, bcast,
                   restarts, net, aux>>

\* http.rs:148-160: the send of a spawned send task fails.
send_broadcast_fails(n) ==
    /\ tx_bcast[n].closed
    /\ \E b \in pending[n] :
         /\ pending' = [pending EXCEPT ![n] = pending[n] \ {b}]
         /\ bookie' = [bookie EXCEPT ![n] = bookie_after_send_error(bookie[n], b)]
    /\ UNCHANGED <<loops, up, actorFile, siteId, actorId, db, conn, lock, task, bcast,
                   published, committed, restarts, net, aux>>

HandOffNext ==
    \E n \in Nodes :
        \/ setup(n)
        \/ api_write(n)
        \/ send_broadcast(n)
        \/ send_broadcast_fails(n)
        \/ broadcaster_stops(n)

HandOffSpec == Init /\ [][HandOffNext]_vars

(* ------------------- one sync cycle (agent.rs:1150-1234) ---------------- *)
\* The requests one cycle is followed for.
MaxRequests == 8

\* agent.rs:1160: backoff::Backoff::new(5).
SyncRetries == 5

\* The iterator of a Backoff with `retries` retries, after retry_count
\* values: the next duration, or None when the retries are used up; a
\* Backoff of 0 retries never ends (sync_loop unwraps its values,
\* agent.rs:1337-1340).
BackoffNext(retry_count, retries) ==
    IF retries > 0 /\ retry_count >= retries THEN None ELSE "Some"

\* agent.rs:1297-1303 and 1286-1294: what one request of
\* handle_sync_receive comes to: the streamed body applied, 503, another
\* status, or no headers within the timeout.
SyncAnswers == {"Ok", "Unavailable", "Status", "RequestTimedOut"}

\* An error test that takes every failed request for a busy peer.
is_unavailable_AnyError(e) == e # "Ok"

\* agent.rs:1136-1140
is_unavailable(e) == e = "Unavailable"

\* A retry that does not look at the backoff iterator.
ShouldRetry_WithoutBackoff(e, dur) == is_unavailable(e)

\* agent.rs:1224-1230: the request is made again when the peer was busy and
\* the backoff has a duration left.
ShouldRetry(e, dur) == is_unavailable(e) /\ dur # None

\* A candidate list that keeps the agent itself.
low_rtt_candidates_WithSelf(n) == members[n]

\* agent.rs:1165-1175: the members other than the agent itself.
low_rtt_candidates(n) == members[n] \ {actorId[n]}

\* The actors the Bookie has versions of.
BookieActors(b) == {e.actor_id : e \in b}

\* generate_sync(bookie, actor_id): the summary of the Bookie, for every
\* actor its last version and the versions missing below it.
generate_sync(b, actor_id) ==
    [actor_id |-> actor_id,
     heads |-> [a \in BookieActors(b) |-> BookieLast(b, a)],
     need |-> [a \in BookieActors(b) |->
                 {v \in 1..BookieLast(b, a) : ~BookieContains(b, a, v)}]]

\* SyncMessage::need_len_for_actor: how many versions of the actor the
\* summary needs.
need_len_for_actor(sync, a) ==
    IF a \in DOMAIN sync.need THEN Cardinality(sync.need[a]) ELSE 0

\* agent.rs:1186: choose_multiple(&mut rng, amount) samples amount of the
\* candidates, all of them when there are fewer.
choose_multiple(candidates, amount) ==
    {T \in SUBSET candidates :
        Cardinality(T) = IF Cardinality(candidates) < amount
                         THEN Cardinality(candidates) ELSE amount}

\* A choice that takes the first of the sample as it was drawn.
first_choice_Unsorted(sync, choices) == choices

\* agent.rs:1188-1195: the sample is sorted by need_len_for_actor, largest
\* first, and its first element is taken; with equal values either sampled
\* candidate can be the first.
first_choice(sync, choices) ==
    {a \in choices :
        \A b \in choices :
            need_len_for_actor(sync, a) >= need_len_for_actor(sync, b)}

\* agent.rs:1164-1198, the head of the loop: a peer is chosen, or the
\* cycle ends with NoGoodCandidate.
choose_peer(n, c) ==
    IF low_rtt_candidates(n) = {}
    THEN sync_cycle' = [sync_cycle EXCEPT ![n] =
            [c EXCEPT !.pc = "done", !.with = None, !.res = "NoGoodCandidate",
                      !.choices = {}]]
    ELSE \E choices \in choose_multiple(low_rtt_candidates(n), 2) :
            \E chosen \in first_choice(c.sync, choices) :
                sync_cycle' = [sync_cycle EXCEPT ![n] =
                    [c EXCEPT !.pc = "requesting", !.with = chosen,
                              !.choices = choices]]

\* agent.rs:1150-1198: sync_loop calls handle_sync, which makes the summary
\* of the Bookie and its backoff iterator and enters the loop.
handle_sync(n) ==
    /\ up[n]
    /\ sync_cycle[n].pc \in {"idle", "done"}
    /\ choose_peer(n, [NoSync EXCEPT !.sync = generate_sync(bookie[n], actorId[n])])
    /\ UNCHANGED <<calls, core, foca_tx, ingress, membership, routes, sending,
                   tripwire, running>>

\* agent.rs:1205-1231: the request to the chosen peer and the match on its
\* result.
handle_sync_receive(n) ==
    /\ sync_cycle[n].pc = "requesting"
    /\ sync_cycle[n].requests < MaxRequests
    /\ \E res \in SyncAnswers :
        \E dur \in {IF is_unavailable(res)
                    THEN BackoffNext(sync_cycle[n].retry_count, SyncRetries)
                    ELSE None} :
            sync_cycle' = [sync_cycle EXCEPT ![n] =
                [pc |-> IF res # "Ok" /\ ShouldRetry(res, dur)
                        THEN "sleeping" ELSE "done",
                 retry_count |-> IF dur # None THEN @.retry_count + 1
                                 ELSE @.retry_count,
                 requests |-> @.requests + 1,
                 with |-> None,
                 res |-> res,
                 sync |-> @.sync,
                 choices |-> {}]]
    /\ UNCHANGED <<calls, core, foca_tx, ingress, membership, routes, sending,
                   tripwire, running>>

\* agent.rs:1226-1227: the sleep of the backoff is over, the loop goes on.
sync_sleep_ends(n) ==
    /\ sync_cycle[n].pc = "sleeping"
    /\ choose_peer(n, sync_cycle[n])
    /\ UNCHANGED <<calls, core, foca_tx, ingress, membership, routes, sending,
                   tripwire, running>>

SyncCycleNext ==
    \E n \in Nodes :
        \/ setup(n)
        \/ handle_notifications(n)
        \/ handle_sync(n)
        \/ handle_sync_receive(n)
        \/ sync_sleep_ends(n)

SyncCycleSpec == Init /\ [][SyncCycleNext]_vars

(* ------------------- shutdown (agent.rs:338-414, 503-553, 1336-1363) ---- *)
\* The announcements the bootstrap loop is followed for.
MaxAnnounces == 1

\* The datagrams that arrive while the shutdown is followed: SWIM data and
\* broadcasts of one frame.
ShutdownDatagrams(n) ==
    {p \in Datagrams(n) : p.first \in {<<0>>, <<1>>} /\ Len(p.rest) <= 1}

Announces(n) ==
    Cardinality({i \in DOMAIN foca_tx[n] : foca_tx[n][i].kind = "Announce"})

\* agent.rs:338, 392, 503 and 523: run spawns the UDP receive loop, the
\* bootstrap loop and sync_loop, then enters its main loop.
run(n) ==
    /\ up[n]
    /\ \A l \in Loops : running[n][l] = "unborn"
    /\ running' = [running EXCEPT ![n] = [l \in Loops |-> "running"]]
    /\ UNCHANGED <<calls, core, foca_tx, ingress, membership, routes, sending,
                   sync_cycle, tripwire>>

\* The tripwire of the agent fires.
trip(n) ==
    /\ up[n]
    /\ ~tripwire[n]
    /\ tripwire' = [tripwire EXCEPT ![n] = TRUE]
    /\ UNCHANGED <<calls, core, foca_tx, ingress, membership, routes, sending,
                   sync_cycle, running>>

\* agent.rs:523-553: one turn of the main loop.  The select is biased: a
\* ready batch of the ingest channel is taken first, the tripwire is looked
\* at when there is none.
main_loop(n) ==
    /\ running[n]["main"] = "running"
    /\ IF bcast_msg_tx[n] # <<>>
       THEN run_gossip(n)
       ELSE /\ tripwire[n]
            /\ running' = [running EXCEPT ![n]["main"] = "stopped"]
            /\ UNCHANGED <<calls, core, foca_tx, ingress, membership, routes, sending,
                           sync_cycle, tripwire>>

\* agent.rs:1345-1356: the timer of sync_loop fires and handle_sync runs.
sync_loop_tick(n) ==
    /\ running[n]["sync_loop"] = "running"
    /\ handle_sync(n)

\* agent.rs:1347-1351 and 1358-1360: the tripwire preempts handle_sync or
\* wins the select, and sync_loop breaks.
sync_loop_break(n) ==
    /\ running[n]["sync_loop"] = "running"
    /\ tripwire[n]
    /\ running' = [running EXCEPT ![n]["sync_loop"] = "stopped"]
    /\ sync_cycle' = [sync_cycle EXCEPT ![n] = NoSync]
    /\ UNCHANGED <<calls, core, foca_tx, ingress, membership, routes, sending,
                   tripwire>>

\* agent.rs:344-381: one turn of the UDP receive loop.  The loop waits for
\* the socket only; nothing in it looks at the tripwire.
udp_loop(n) ==
    /\ running[n]["udp"] = "running"
    /\ \E payload \in ShutdownDatagrams(n) : recv(n, payload)

\* agent.rs:396-397: the interval of the bootstrap loop ticks.  The loop
\* waits for its interval only; nothing in it looks at the tripwire.
bootstrap_tick(n) ==
    /\ running[n]["bootstrap"] = "running"
    /\ running' = [running EXCEPT ![n]["bootstrap"] = "bootstrapping"]
    /\ UNCHANGED <<calls, core, foca_tx, ingress, membership, routes, sending,
                   sync_cycle, tripwire>>

\* agent.rs:399-410: generate_bootstrap fails or gives no address, or the
\* agent announces itself to the address it gives; the loop goes back to
\* its interval.
bootstrap_loop(n) ==
    /\ running[n]["bootstrap"] = "bootstrapping"
    /\ \/ UNCHANGED foca_tx
       \/ /\ Announces(n) < MaxAnnounces
          /\ foca_tx' = [foca_tx EXCEPT ![n] =
                 Append(@, [kind |-> "Announce", payload |-> <<>>])]
    /\ running' = [running EXCEPT ![n]["bootstrap"] = "running"]
    /\ UNCHANGED <<calls, core, ingress, membership, routes, sending, sync_cycle,
                   tripwire>>

ShutdownNext ==
    \E n \in Nodes :
        \/ setup(n)
        \/ run(n)
        \/ trip(n)
        \/ main_loop(n)
        \/ sync_loop_tick(n)
        \/ sync_loop_break(n)
        \/ udp_loop(n)
        \/ bootstrap_tick(n)
        \/ bootstrap_loop(n)

\* Every task of the agent is scheduled again and again: a step it can
\* take for ever is taken.
ShutdownFairness ==
    \A n \in Nodes :
        /\ WF_vars(run(n))
        /\ WF_vars(main_loop(n))
        /\ WF_vars(sync_loop_tick(n))
        /\ WF_vars(sync_loop_break(n))
        /\ WF_vars(udp_loop(n))
        /\ WF_vars(bootstrap_tick(n))
        /\ WF_vars(bootstrap_loop(n))

ShutdownSpec == Init /\ [][ShutdownNext]_vars /\ ShutdownFairness

(* ------------------- the write API (http.rs:48-274) --------------------- *)
\* The statements of a request: writes of a cell, and a statement the
\* engine refuses.
ApiStatement ==
    {[cell |-> c, val |-> v, bad |-> FALSE] : c \in Cells, v \in ClusterVals}
        \cup {[cell |-> "k1", val |-> 1, bad |-> TRUE]}

\* axum::extract::Json<Vec<Statement>>: any list, the empty one too.
ApiRequests == {<<>>} \cup {<<a>> : a \in ApiStatement}
                   \cup {<<a, b>> : a \in ApiStatement, b \in ApiStatement}

\* A transaction that is committed when it is dropped.
Rollback_Commits(d, tx) == tx

\* http.rs:62 with every `?` and bail after it: the Transaction is dropped
\* without commit, which rolls back what was done in it.
Rollback(d, tx) == d

\* A closure that keeps the results of the statements that ran only.
KeepResult_OnlyExecuted(res) == res.kind = "Execute"

\* http.rs:213-231: filter_map over the statements with Some(..) for both
\* arms: every statement leaves a result.
KeepResult(res) == TRUE

\* http.rs:216-230: one statement of the closure of api_v1_db_execute; its
\* error becomes its result and the closure goes on.
StatementResult(d, stmt, pend) ==
    IF stmt.bad
    THEN [db |-> d, n |-> 0, res |-> [kind |-> "Error", rows_affected |-> 0]]
    ELSE With(execute_statement(d, stmt, pend), LAMBDA r :
            [db |-> r.db, n |-> r.n,
             res |-> [kind |-> "Execute", rows_affected |-> r.n]])

\* http.rs:210-235: the closure of api_v1_db_execute, which returns
\* Ok(results) whatever the statements did.
RECURSIVE ExecuteClosure(_, _, _)
ExecuteClosure(d, stmts, pend) ==
    IF stmts = <<>> THEN [db |-> d, n |-> 0, results |-> <<>>]
    ELSE With(StatementResult(d, Head(stmts), pend), LAMBDA r :
         With(ExecuteClosure(r.db, Tail(stmts), pend), LAMBDA rest :
            [db |-> rest.db, n |-> r.n + rest.n,
             results |-> IF KeepResult(r.res) THEN <<r.res>> \o rest.results
                         ELSE rest.results]))

ErrorResult == <<[kind |-> "Error", rows_affected |-> 0]>>

\* http.rs:193-274 from call to return: the answer and the state it leaves.
\* engine_ok is FALSE when the pool, the transaction or the commit fails.
api_v1_db_execute(st, actor, statements, engine_ok) ==
    LET unchanged == [db |-> st.db, bookie |-> st.bookie,
                      published |-> st.published, sent |-> <<>>, window |-> <<>>]
    IN  IF statements = <<>>
        THEN [status |-> 400, results |-> ErrorResult, st |-> unchanged]
        ELSE With(ExecuteClosure(st.db, statements, crsql_dbversion(st.db) + 1),
                  LAMBDA ran :
             IF ~engine_ok
             THEN [status |-> 500, results |-> ErrorResult,
                   st |-> [unchanged EXCEPT !.db = Rollback(st.db, ran.db)]]
             ELSE With(commit_changes(st, actor, ran), LAMBDA r :
                  IF r.ret = "Ok"
                  THEN [status |-> 200, results |-> ran.results,
                        st |-> [db |-> r.db, bookie |-> r.bookie,
                                published |-> r.published, sent |-> r.sent,
                                window |-> r.window]]
                  ELSE [status |-> IF TooManyRowsImpacted(ran.n) THEN 400 ELSE 500,
                        results |-> ErrorResult,
                        st |-> [unchanged EXCEPT !.db = Rollback(st.db, ran.db)]]))

\* The state a call leaves on node n.
Leave(n, st) ==
    /\ db' = [db EXCEPT ![n] = st.db]
    /\ bookie' = [bookie EXCEPT ![n] = st.bookie]
    /\ published' = [published EXCEPT ![n] = st.published]
    /\ pending' = [pending EXCEPT ![n] = @ \cup {st.sent[i] : i \in DOMAIN st.sent}]
    /\ committed' = [committed EXCEPT ![n] = @ \o st.window]

\* POST /db/execute on node n.
db_execute(n) ==
    /\ up[n]
    /\ Len(committed[n]) < MaxWrites
    /\ \E statements \in ApiRequests, engine_ok \in BOOLEAN :
         \E r \in {api_v1_db_execute(NodeState(n), actorId[n], statements, engine_ok)} :
             /\ Leave(n, r.st)
             /\ api_call' = [api_call EXCEPT ![n] =
                    [statements |-> statements, fails |-> FALSE,
                     engine_ok |-> engine_ok,
                     status |-> r.status, results |-> r.results]]
    /\ UNCHANGED <<up, actorFile, siteId, actorId, conn, lock, task, bcast,
                   restarts, net, foca_tx, ingress, membership, routes, sending,
                   loops, schema, bootstrap>>

\* http.rs:62-69: make_broadcastable_changes is called with a closure that
\* runs the statements and then returns an error; `f(&tx)?` returns it.
failing_closure(n) ==
    /\ up[n]
    /\ \E statements \in ApiRequests :
         \E ran \in {RunStatements(db[n], statements, crsql_dbversion(db[n]) + 1)} :
             /\ db' = [db EXCEPT ![n] = Rollback(db[n], ran.db)]
             /\ api_call' = [api_call EXCEPT ![n] =
                    [statements |-> statements, fails |-> TRUE,
                     engine_ok |-> TRUE,
                     status |-> 500, results |-> ErrorResult]]
    /\ UNCHANGED <<up, actorFile, siteId, actorId, bookie, conn, lock, task,
                   pending, bcast, published, committed, restarts, net,
                   foca_tx, ingress, membership, routes, sending, loops, schema, bootstrap>>

ApiNext ==
    \E n \in Nodes :
        \/ setup(n)
        \/ db_execute(n)
        \/ failing_closure(n)
        \/ send_broadcast(n)

ApiSpec == Init /\ [][ApiNext]_vars

(* ------------------- apply_schema (agent.rs:1399-1725) ------------------ *)
\* Schema files hold tables of these names with columns of these names.
TableNames == {"tests", "tests2"}
ColumnNames == {"id", "text", "meta"}

\* NormalizedSchema.tables: the columns of every table it has; a table has
\* at least its primary key.
Schemas ==
    UNION {[ts -> (SUBSET ColumnNames) \ {{}}] : ts \in SUBSET TableNames}

\* A check that lets every schema through.
dropped_Nothing(old, new) == {}

\* agent.rs:1433-1438 and 1507-1514: the keys of the current schema that the
\* new one does not have (tables, columns of a table).
dropped(old, new) == old \ new

\* agent.rs:1443-1481: CREATE TABLE of every table of the new schema that
\* the current one does not have, in the transaction.
create_new_tables(tx, schema_now, new_schema) ==
    [t \in DOMAIN tx \cup (DOMAIN new_schema \ DOMAIN schema_now) |->
        IF t \in DOMAIN new_schema \ DOMAIN schema_now THEN new_schema[t] ELSE tx[t]]

\* agent.rs:1563-1576: ALTER TABLE ADD COLUMN of every column of the new
\* table that the current one does not have.
add_new_columns(tx, schema_now, new_schema, t) ==
    [tx EXCEPT ![t] = @ \cup (new_schema[t] \ schema_now[t])]

\* agent.rs:1484-1725: the tables both schemas have, one after the other; a
\* table that lost a column ends the function with an error.
RECURSIVE alter_tables(_, _, _, _)
alter_tables(tx, schema_now, new_schema, todo) ==
    IF todo = {} THEN [ok |-> TRUE, tx |-> tx]
    ELSE LET t == CHOOSE x \in todo : TRUE
         IN  IF dropped(schema_now[t], new_schema[t]) # {}
             THEN [ok |-> FALSE, tx |-> tx]
             ELSE alter_tables(add_new_columns(tx, schema_now, new_schema, t),
                               schema_now, new_schema, todo \ {t})

\* agent.rs:1399-1725 on a database with the tables d, called with the
\* current schema schema_now and the schema files new_schema: the tables
\* of the database afterwards and the result.
apply_schema(d, schema_now, new_schema) ==
    IF dropped(DOMAIN schema_now, DOMAIN new_schema) # {}
    THEN [ret |-> "Err", tables |-> Rollback(d, d)]
    ELSE With(alter_tables(create_new_tables(d, schema_now, new_schema),
                           schema_now, new_schema,
                           DOMAIN new_schema \cap DOMAIN schema_now),
              LAMBDA r :
              IF r.ok THEN [ret |-> "Ok", tables |-> r.tx]
              ELSE [ret |-> "Err", tables |-> Rollback(d, r.tx)])

\* agent.rs:166-167: the schema files are applied to the database of node
\* n, the current schema read from it by init_schema.
apply_schema_files(n) ==
    /\ \E new_schema \in Schemas :
         \E r \in {apply_schema(schema[n].tables, schema[n].tables, new_schema)} :
             schema' = [schema EXCEPT ![n] =
                 [tables |-> r.tables, new |-> new_schema, ret |-> r.ret]]
    /\ UNCHANGED <<core, foca_tx, ingress, membership, routes, sending, loops,
                   api_call, bootstrap>>

SchemaNext == \E n \in Nodes : apply_schema_files(n)

SchemaSpec == Init /\ [][SchemaNext]_vars

(* ------------------- a gossip batch (agent.rs:590-617) ------------------ *)
\* The versions of the remote actor that the messages of a batch carry.
MaxBatchVersion == 2

BatchMsgs ==
    UNION {{Message(RemoteActor, v, cs, v) : cs \in SUBSET RemoteChanges(v)} :
              v \in 1..MaxBatchVersion}

\* agent.rs:600-601 with the messages of several versions.
gossip_next_version(n, t) == gossip_take(n, t, BatchMsgs)

\* handle_gossip from call to return on a running agent, batch after batch.
GossipNext ==
    \E n \in Nodes :
        \/ setup(n)
        \/ \E t \in Tasks :
            \/ gossip_begin(n, t)
            \/ gossip_next_version(n, t)
            \/ process_msg_seen(n, t)
            \/ gossip_skip(n, t)
            \/ process_msg_new(n, t)
            \/ process_msg_begin(n, t)
            \/ process_msg_commit(n, t)
            \/ process_msg_fails(n, t)
            \/ process_msg_book(n, t)
            \/ gossip_rebroadcast(n, t)

GossipSpec == Init /\ [][GossipNext]_vars

(* ------------------- the peer of a sync cycle (agent.rs:1150-1198) ------ *)
\* The members SWIM may report up to a syncing agent: remote actors and an
\* identity that carries the agent's own actor id.
SyncPeers(n) == Peers \cup {"r3", actorId[n]}

PeerNotifications(n) ==
    {[kind |-> "MemberUp", actor |-> a] : a \in SyncPeers(n)}

peer_notifications(n) == notifications_of(n, PeerNotifications(n))

\* The whole changesets of the remote actor's versions.
PeerMsgs ==
    {Message(RemoteActor, v, RemoteChanges(v), v) : v \in 1..MaxBatchVersion}

\* agent.rs:590-617: handle_gossip of one new message, which fills the
\* Bookie the next summary is made of.
peer_gossip(n) ==
    /\ up[n]
    /\ \E m \in PeerMsgs :
         \E r \in {process_msg(NodeState(n), m)} :
             /\ r.ret = "Some"
             /\ db' = [db EXCEPT ![n] = r.db]
             /\ bookie' = [bookie EXCEPT ![n] = r.bookie]
             /\ published' = [published EXCEPT ![n] = r.published]
             /\ bcast' = [bcast EXCEPT ![n] =
                   Append(@, [kind |-> "Rebroadcast", msg |-> r.out[1]])]
    /\ UNCHANGED <<up, actorFile, siteId, actorId, conn, lock, task, pending,
                   committed, restarts, net, aux>>

PeerChoiceNext ==
    \E n \in Nodes :
        \/ setup(n)
        \/ peer_notifications(n)
        \/ peer_gossip(n)
        \/ handle_sync(n)
        \/ handle_sync_receive(n)
        \/ sync_sleep_ends(n)

PeerChoiceSpec == Init /\ [][PeerChoiceNext]_vars

(* ------------------- generate_bootstrap (agent.rs:709-839) -------------- *)
\* agent.rs:69
RandomNodesChoices == 10

\* agent.rs:725: `select address from __corro_members limit 5`.
MembersLimit == 5

\* The entries of the configured bootstrap list one call is given.
MaxBootstrap == 2

SocketAddr(fam, ip, port) == [fam |-> fam, ip |-> ip, port |-> port]

\* Ip addresses are numbers; OurIp is the one the agent itself listens on.
OurIp == 0

NoAddr == [fam |-> 0, ip |-> 0, port |-> 0]

\* The port that stands for DEFAULT_GOSSIP_PORT.
DefaultGossipPort == 1

\* gossip_addr, the address the agent's own gossip socket is bound to.
our_addr(n) == SocketAddr(4, OurIp, DefaultGossipPort)

\* An entry of the bootstrap list: a string that parses as a socket
\* address, or host[:port][@dns_server]; port 0 stands for none given, the
\* dns_server is absent, parses, or does not.
Literal(addr) ==
    [lit |-> TRUE, addr |-> addr, host |-> None, port |-> 0, server |-> "none"]

HostPort(host, port, server) ==
    [lit |-> FALSE, addr |-> NoAddr, host |-> host, port |-> port,
     server |-> server]

BootstrapEntries(n) ==
    {Literal(our_addr(n)), Literal(SocketAddr(4, 1, DefaultGossipPort)),
     HostPort("h1", 0, "none"), HostPort("h1", 2, "none"),
     HostPort("big", 0, "good"), HostPort("h1", 0, "bad")}

BootstrapLists(n) == UNION {[1..k -> BootstrapEntries(n)] : k \in 0..MaxBootstrap}

\* What a lookup answers: records (each an ip of a family), no record, or
\* another error.
BigIps == {[fam |-> 4, ip |-> i] : i \in 1..(RandomNodesChoices + 2)}

LookupAnswers ==
    {[r |-> "Ok", ips |-> S] :
        S \in SUBSET {[fam |-> 4, ip |-> OurIp], [fam |-> 4, ip |-> 1],
                      [fam |-> 6, ip |-> 100]}}
        \cup {[r |-> "NoRecordsFound", ips |-> {}], [r |-> "Err", ips |-> {}]}

\* The name service of one call: whether the system resolver can be made,
\* and the answer for each host name.
DnsWorlds ==
    {[system_ok |-> ok, h1 |-> a, big |-> [r |-> "Ok", ips |-> BigIps]] :
        ok \in BOOLEAN, a \in LookupAnswers}

\* The rows of __corro_members: an address column that parses or does not.
MemberRow(parses, addr) == [parses |-> parses, addr |-> addr]

MemberRows(n) ==
    {MemberRow(TRUE, our_addr(n)), MemberRow(FALSE, NoAddr),
     MemberRow(TRUE, SocketAddr(6, 100, DefaultGossipPort))}
        \cup {MemberRow(TRUE, SocketAddr(4, i, DefaultGossipPort)) :
                i \in 1..MembersLimit}

MemberTables(n) ==
    {S \in SUBSET MemberRows(n) : Cardinality(S) <= 1} \cup {MemberRows(n)}

\* A filter that lets the agent's own address through.
is_other_addr_Any(our, addr) == TRUE

\* agent.rs:730-737 and 815-822: the address is kept when it is of the
\* family of our_addr and differs from it.
is_other_addr(our, addr) == addr.fam = our.fam /\ addr # our

\* agent.rs:769-839 from the entry at the head of list on, addrs being the
\* set gathered so far.
RECURSIVE resolve_entries(_, _, _, _)
resolve_entries(list, our, dns, addrs) ==
    IF list = <<>> THEN [ok |-> TRUE, addrs |-> addrs]
    ELSE LET s == Head(list)
         IN  IF s.lit
             THEN resolve_entries(Tail(list), our, dns, addrs \cup {s.addr})
             ELSE IF s.server = "bad" THEN [ok |-> FALSE, addrs |-> {}]
             ELSE LET answer == dns[s.host]
                      port == IF s.port = 0 THEN DefaultGossipPort ELSE s.port
                  IN  CASE answer.r = "Ok" ->
                             resolve_entries(Tail(list), our, dns,
                                 addrs \cup {a \in {SocketAddr(i.fam, i.ip, port) :
                                                      i \in answer.ips} :
                                                is_other_addr(our, a)})
                        [] answer.r = "NoRecordsFound" ->
                             resolve_entries(Tail(list), our, dns, addrs)
                        [] OTHER -> [ok |-> FALSE, addrs |-> {}]

\* agent.rs:757-839
resolve_bootstrap(list, our, dns) ==
    IF list = <<>> THEN [ok |-> TRUE, addrs |-> {}]
    ELSE IF ~dns.system_ok THEN [ok |-> FALSE, addrs |-> {}]
    ELSE resolve_entries(list, our, dns, {})

\* agent.rs:722-739: the addresses of the rows the query returned.
in_db_nodes(rows, our) ==
    {r.addr : r \in {x \in rows : x.parses /\ is_other_addr(our, x.addr)}}

\* A fallback taken only when the resolution failed.
falls_back_OnErrorOnly(resolved) == ~resolved.ok

\* agent.rs:714-722: an error of resolve_bootstrap gives the empty set, and
\* the empty set falls back to the members table.
falls_back(resolved) == ~resolved.ok \/ resolved.addrs = {}

\* agent.rs:709-746: the results generate_bootstrap can return, the rows
\* of a `limit 5` query and the sample being any.
generate_bootstrap(list, our, dns, rows, pool_ok) ==
    With(resolve_bootstrap(list, our, dns), LAMBDA resolved :
        IF falls_back(resolved)
        THEN IF ~pool_ok THEN {[resolved |-> resolved, ret |-> "Err", addrs |-> {}]}
             ELSE {[resolved |-> resolved, ret |-> "Ok", addrs |-> sample] :
                     sample \in UNION {choose_multiple(in_db_nodes(read, our),
                                                       RandomNodesChoices) :
                                          read \in choose_multiple(rows, MembersLimit)}}
        ELSE {[resolved |-> resolved, ret |-> "Ok", addrs |-> sample] :
                 sample \in choose_multiple(resolved.addrs, RandomNodesChoices)})

\* agent.rs:399: the bootstrap loop calls generate_bootstrap; one call of a
\* launch is followed.
bootstrap_call(n) ==
    /\ up[n]
    /\ bootstrap[n].ret = None
    /\ \E list \in BootstrapLists(n), dns \in DnsWorlds,
          rows \in MemberTables(n), pool_ok \in BOOLEAN :
         \E r \in generate_bootstrap(list, our_addr(n), dns, rows, pool_ok) :
             bootstrap' = [bootstrap EXCEPT ![n] =
                 [list |-> list, dns |-> dns, rows |-> rows, pool_ok |-> pool_ok,
                  resolved |-> r.resolved, ret |-> r.ret, addrs |-> r.addrs]]
    /\ UNCHANGED <<core, foca_tx, ingress, membership, routes, sending, loops,
                   api_call, schema>>

BootstrapNext == \E n \in Nodes : setup(n) \/ bootstrap_call(n)

BootstrapSpec == Init /\ [][BootstrapNext]_vars

(* ------------------------------ properties ------------------------------ *)
\* C3: in a connected cluster, after the finitely many local writes, with
\* gossip delivery and sync cycles going on, the nodes reach and keep a
\* state where their Bookies have the same heads, no need is left and
\* they hold the same rows.
C3_EventualConvergence == <>[]Converged

\* C1: every local write that commits with at least one row change gets
\* version = (highest local version in the Bookie, 0 if none) + 1, so the
\* versions of the writes in commit order are 1, 2, 3, ...
C1_LocalVersionsConsecutive ==
    [][\A n \in Nodes :
         Len(committed'[n]) > Len(committed[n]) =>
            LET w == committed'[n][Len(committed'[n])]
            IN  /\ w.version = BookieLast(bookie[n], actorId[n]) + 1
                /\ w.version = Len(committed'[n])]_vars

\* Two writes have committed, the second after a remote version was booked.
C1_Witness ==
    \E n \in Nodes :
        /\ Len(committed[n]) = 2
        /\ committed[n][2].version = 2
        /\ BookieContains(bookie[n], RemoteActor, 1)

\* C2: processing the same Change through process_msg a second and a third
\* time in sequence leaves the node's engine state and Bookie as the first
\* processing left them; the repeats are answered None (they are no
\* errors).
C2_ProcessMsgIdempotent ==
    \A n \in Nodes : up[n] =>
        \A m \in EnvMsgs :
            LET once == process_msg(NodeState(n), m)
                twice == process_msg(once, m)
                thrice == process_msg(twice, m)
            IN  /\ twice.db = once.db /\ twice.bookie = once.bookie
                /\ thrice.db = once.db /\ thrice.bookie = once.bookie
                /\ once.ret # "Err" => twice.ret = "None" /\ thrice.ret = "None"

\* A node holding local rows is offered a Change that it would apply with
\* impact on some cell and without impact on another.
C2_Witness ==
    \E n \in Nodes : \E m \in EnvMsgs :
        LET once == process_msg(NodeState(n), m)
        IN  /\ up[n]
            /\ once.ret = "Some"
            /\ once.db.clock # db[n].clock
            /\ \E ch \in m.changeset : once.db.clock[ch.cell].site # RemoteActor

\* C4: a local write whose transaction produces no row change writes no
\* bookkeeping row, enqueues nothing for the broadcaster and leaves the
\* local actor's last version in the Bookie as it was.
C4_EmptyWriteIsSilent ==
    [][\A n \in Nodes : \A t \in Tasks :
         /\ (/\ task[n][t].pc = "w_tx"
             /\ task'[n][t].pc = "w_committed"
             /\ task'[n][t].changes = {})
            => db'[n].bk = db[n].bk
         /\ (/\ task[n][t].pc = "w_committed"
             /\ task[n][t].changes = {}
             /\ task'[n][t].pc = "idle"
             /\ up'[n])
            => /\ pending'[n] = pending[n]
               /\ bcast'[n] = bcast[n]
               /\ bookie'[n] = bookie[n]]_vars

\* A write over existing rows committed without changing any of them.
C4_Witness ==
    \E n \in Nodes : \E t \in Tasks :
        /\ task[n][t].pc = "w_committed"
        /\ task[n][t].changes = {}
        /\ task[n][t].start > 0
        /\ Len(committed[n]) > 0

\* C5: a local write whose transaction impacts more rows than
\* max_change_size ends with TooManyRowsImpacted and never commits: rows,
\* bookkeeping, Bookie and broadcasts stay as they were.
C5_TooManyRowsNoEffect ==
    [][\A n \in Nodes : \A t \in Tasks :
         /\ task'[n][t].pc = "w_committed" => task'[n][t].rows <= MaxChangeSize
         /\ (task[n][t].pc = "w_tx" /\ task'[n][t].pc = "w_too_many")
            => /\ task'[n][t].rows > MaxChangeSize
               /\ db'[n] = db[n]
               /\ bookie'[n] = bookie[n]
               /\ pending'[n] = pending[n]
               /\ bcast'[n] = bcast[n]
               /\ t \notin conn'[n]]_vars

\* A write was refused for its size on a node that holds data.
C5_Witness ==
    \E n \in Nodes : \E t \in Tasks :
        /\ task[n][t].pc = "w_too_many"
        /\ task[n][t].rows > MaxChangeSize
        /\ ~NoChangeRows(db[n])

\* C6: process_msg of a Change the Bookie already contains returns None
\* without taking a connection or changing the engine or the Bookie; a
\* Change the Bookie does not contain goes on to its transaction and, once
\* applied, is returned as Some(message) of the same actor and version.
C6_SomeForNewNoneForSeen ==
    [][\A n \in Nodes : \A t \in Tasks :
         LET me == task[n][t]
             to == task'[n][t]
         IN  /\ (me.pc = "p_check" /\ to # me /\ up'[n])
                => IF BookieContains(bookie[n], me.msg.actor_id, me.msg.version)
                   THEN /\ to.pc = "p_none"
                        /\ to.out = me.out
                        /\ conn'[n] = conn[n]
                        /\ db'[n] = db[n]
                        /\ bookie'[n] = bookie[n]
                   ELSE to.pc = "p_conn"
             /\ (me.pc = "p_book" /\ to # me /\ up'[n])
                => /\ Len(to.out) = Len(me.out) + 1
                   /\ to.out[Len(to.out)].actor_id = me.msg.actor_id
                   /\ to.out[Len(to.out)].version = me.msg.version
                   /\ BookieContains(bookie'[n], me.msg.actor_id, me.msg.version)]_vars

\* In one batch a Change was applied and returned, and the same Change,
\* offered again, was answered with None.
C6_Witness ==
    \E n \in Nodes : \E t \in Tasks :
        /\ task[n][t].pc = "p_none"
        /\ Len(task[n][t].out) = 1
        /\ task[n][t].out[1].version = task[n][t].msg.version

\* C7: the message process_msg returns for rebroadcast carries the
\* changeset exactly as it was received, changes without local impact
\* included; only the subscription hook gets the impactful projection.
C7_RebroadcastCarriesOriginal ==
    [][\A n \in Nodes : \A t \in Tasks :
         (/\ task[n][t].pc = "p_book"
          /\ task'[n][t].pc = "g_next")
         => LET out == task'[n][t].out
            IN  out[Len(out)].changeset = task[n][t].msg.changeset]_vars

\* C8: whatever the interleaving of local writes and remote ingests on a
\* node, no two local writes get the same version, the windows
\* (start_db_version, end_db_version] of the local versions do not overlap,
\* and a transaction is open only in the one task holding the connection.
C8_NoInterleavedWindows ==
    \A n \in Nodes :
        /\ \A i \in 1..Len(committed[n]) : \A j \in 1..Len(committed[n]) :
             i < j => /\ committed[n][i].version # committed[n][j].version
                      /\ committed[n][i].end <= committed[n][j].start
        /\ \A t \in Tasks : \A u \in Tasks :
             (/\ task[n][t].pc \in {"w_tx", "w_committed", "p_tx"}
              /\ task[n][u].pc \in {"w_tx", "w_committed", "p_tx"})
             => t = u

\* Two local writes committed with a remote ingest between them, the
\* second while another handler is in the middle of its gossip batch.
C8_Witness ==
    \E n \in Nodes : \E t \in Tasks : \E u \in Tasks :
        /\ Len(committed[n]) = 2
        /\ committed[n][1].end < committed[n][2].start
        /\ task[n][t].pc = "w_committed"
        /\ task[n][u].pc = "g_next"
        /\ task[n][u].left > 0

\* C9: the Bookie that setup rebuilds holds exactly the (actor, version)
\* of the committed bookkeeping rows, with their db_versions; what the
\* Bookie held when the agent stopped is among them; and a local write that
\* commits with changes gets the version after the highest persisted one.
C9_BookieRebuiltFromRows ==
    [][\A n \in Nodes :
         LET Key(S) == {<<e.actor_id, e.version, e.db_version>> : e \in S}
             local == {r.version : r \in {x \in db[n].bk : x.actor_id = actorId[n]}}
         IN  /\ (~up[n] /\ up'[n]) => Key(bookie'[n]) = Key(db[n].bk)
             /\ (up[n] /\ ~up'[n]) => /\ Key(bookie[n]) \subseteq Key(db[n].bk)
                                      /\ db'[n] = db[n]
             /\ Len(committed'[n]) > Len(committed[n]) =>
                   committed'[n][Len(committed'[n])].version =
                       (IF local = {} THEN 0 ELSE Max(local)) + 1]_vars

\* After a restart over bookkeeping rows of both actors, a local write
\* committed as version 2.
C9_Witness ==
    \E n \in Nodes :
        /\ restarts[n] > 0
        /\ up[n]
        /\ Len(committed[n]) = 2
        /\ BookieContains(bookie[n], RemoteActor, 1)
        /\ \E t \in Tasks : task[n][t].pc = "w_committed" /\ task[n][t].version = 2

\* C10: the ActorId is generated on the first launch only and persisted;
\* every later setup yields the stored ActorId, and when setup completes
\* the engine's site id is that ActorId.
C10_ActorIdStable ==
    [][\A n \in Nodes :
         /\ actorFile[n] # None => actorFile'[n] = actorFile[n]
         /\ (~up[n] /\ up'[n])
            => /\ actorId'[n] = actorFile'[n]
               /\ siteId'[n] = actorId'[n]
               /\ actorFile[n] # None => actorId'[n] = actorFile[n]]_vars

\* A setup after the first launch has completed.
C10_Witness ==
    \E n \in Nodes : up[n] /\ restarts[n] > 0 /\ siteId[n] = actorId[n]

\* What a step added at the end of a channel.
Sent(before, after) == SubSeq(after, Len(before) + 1, Len(after))

\* C11: handle_payload dispatches on the first byte of a datagram.  With 0
\* what follows goes to the SWIM runtime as one Data input and nothing goes
\* to the ingest channel; with 1 and 2 what follows is decoded as broadcast
\* frames (only messages of its frames reach the ingest channel, an intact
\* new first frame of another actor does) and nothing goes to SWIM; with
\* any other byte nothing goes to either and the result is an error.
C11_DispatchOnFirstByte ==
    [][\A n \in Nodes :
        (datagrams'[n] # datagrams[n] /\ handled'[n].payload.first # <<>>) =>
            LET p == handled'[n].payload
                b == p.first[1]
                foca == Sent(foca_tx[n], foca_tx'[n])
                ingest == Sent(bcast_msg_tx[n], bcast_msg_tx'[n])
            IN  /\ b = 0 =>
                    /\ foca = <<[kind |-> "Data", payload |-> p.rest]>>
                    /\ ingest = <<>>
                    /\ handled'[n].ret = "Ok"
                /\ b \in {1, 2} =>
                    /\ foca = <<>>
                    /\ handled'[n].ret = "Ok"
                    /\ \A i \in DOMAIN ingest :
                         \E j \in DOMAIN p.rest :
                            ~p.rest[j].corrupt /\ p.rest[j].msg = ingest[i]
                    /\ (/\ p.rest # <<>>
                        /\ ~p.rest[1].corrupt
                        /\ p.rest[1].msg.actor_id # actorId[n]
                        /\ ~BookieContains(bookie[n], p.rest[1].msg.actor_id,
                                           p.rest[1].msg.version))
                       => (ingest # <<>> /\ ingest[1] = p.rest[1].msg)
                /\ b \notin {0, 1, 2} =>
                    /\ foca = <<>>
                    /\ ingest = <<>>
                    /\ handled'[n].ret = "Err"]_vars

\* A SWIM datagram went to SWIM, and a priority broadcast datagram has
\* just put a message in the ingest channel.
C11_Witness ==
    \E n \in Nodes :
        /\ foca_tx[n] # <<>>
        /\ handled[n].payload.first = <<2>>
        /\ handled[n].ret = "Ok"
        /\ bcast_msg_tx[n] # <<>>

\* C12: when a frame of a broadcast payload does not decode, only that
\* frame is dropped: handle_payload does not fail, and every intact frame
\* of the payload, also one after the corrupt frame, that carries a Change
\* of another actor the Bookie does not contain is delivered to the ingest
\* channel.
C12_OnlyBadFrameDropped ==
    [][\A n \in Nodes :
        (/\ datagrams'[n] # datagrams[n]
         /\ handled'[n].payload.first \in {<<1>>, <<2>>}) =>
            LET rest == handled'[n].payload.rest
                ingest == Sent(bcast_msg_tx[n], bcast_msg_tx'[n])
            IN  /\ handled'[n].ret = "Ok"
                /\ \A j \in DOMAIN rest :
                     (/\ ~rest[j].corrupt
                      /\ rest[j].msg.actor_id # actorId[n]
                      /\ ~BookieContains(bookie[n], rest[j].msg.actor_id,
                                         rest[j].msg.version))
                     => \E i \in DOMAIN ingest : ingest[i] = rest[j].msg]_vars

\* C13: after any sequence of MemberUp/MemberDown notifications the member
\* set is the set of actors added by an Up that no later Down removed; a
\* notification that changes the set sends exactly one MemberEvent, an Up
\* for the actor that came in or a Down for the actor that went out, and a
\* notification that changes nothing sends none.
C13_MembersFollowNotifications ==
    /\ [](\A n \in Nodes :
            members[n] =
                {a \in Peers :
                    \E i \in DOMAIN notified[n] :
                        /\ notified[n][i] = [kind |-> "MemberUp", actor |-> a]
                        /\ \A j \in DOMAIN notified[n] :
                             j > i => notified[n][j] # [kind |-> "MemberDown", actor |-> a]})
    /\ [][\A n \in Nodes :
            notified'[n] # notified[n] =>
                LET events == Sent(member_events[n], member_events'[n])
                    came == members'[n] \ members[n]
                    went == members[n] \ members'[n]
                IN  /\ members'[n] = members[n] => events = <<>>
                    /\ members'[n] # members[n] =>
                         /\ Len(events) = 1
                         /\ \/ events[1].kind = "Up" /\ came = {events[1].actor} /\ went = {}
                            \/ events[1].kind = "Down" /\ went = {events[1].actor} /\ came = {}]_vars

\* An Up and a Down of one actor were reported, and two more notifications
\* changed nothing.
C13_Witness ==
    \E n \in Nodes :
        /\ Len(notified[n]) = 4
        /\ member_events[n] = <<[kind |-> "Up", actor |-> RemoteActor],
                                [kind |-> "Down", actor |-> RemoteActor]>>
        /\ \E i \in 1..3 : /\ notified[n][i].kind = "MemberUp"
                           /\ notified[n][i + 1] = notified[n][i]

Arrives(n, route) ==
    /\ peer_api'[n] # peer_api[n]
    /\ peer_api'[n].last.route = route
    /\ peer_api'[n].last.answer \in {"handling", "queued", "503"}

C16_FullChannelFailsTheSend ==
    /\ [](\A n \in Nodes : \A s \in Submitters : senders[n][s].pc # "waiting")
    /\ [][\A n \in Nodes : \A s \in Submitters :
            (/\ senders[n][s].pc = "idle"
             /\ senders'[n][s].pc # "idle"
             /\ Len(bcast[n]) + tx_bcast[n].backlog = 10240)
            => senders'[n][s].pc = "failed"]_vars

\* C17: when the send of a committed local changeset to the broadcaster
\* fails, the write has returned success, and the rows it committed, its
\* bookkeeping row and its Bookie entry stay as they are.
C17_FailedHandOffKeepsWrite ==
    [][\A n \in Nodes :
        \A b \in pending[n] :
            (pending'[n] = pending[n] \ {b} /\ bcast'[n] = bcast[n] /\ up'[n]) =>
                /\ db'[n] = db[n]
                /\ BkHas(db'[n], b.msg.actor_id, b.msg.version)
                /\ BookieContains(bookie'[n], b.msg.actor_id, b.msg.version)
                /\ b.msg.actor_id = actorId[n]
                /\ \E i \in DOMAIN committed'[n] : committed'[n][i].version = b.msg.version
                /\ \A ch \in b.msg.changeset : HasRow(db'[n], ch.cell)]_vars

\* The broadcaster is gone and the send of a committed write has failed.
C17_Witness ==
    \E n \in Nodes :
        /\ tx_bcast[n].closed
        /\ pending[n] = {}
        /\ Len(committed[n]) = 2
        /\ bcast[n] = <<>>
        /\ BookieContains(bookie[n], actorId[n], 2)

\* C18: within one call of handle_sync a 503 answer is followed by a retry
\* after a backoff while fewer than 5 retries were made; the 503 after the
\* fifth retry ends the cycle with that error, so a cycle never makes more
\* than 6 requests.
C18_BoundedRetries ==
    /\ [](\A n \in Nodes :
            sync_cycle[n].retry_count <= 5 /\ sync_cycle[n].requests <= 6)
    /\ [][\A n \in Nodes :
            (/\ sync_cycle[n].pc = "requesting"
             /\ sync_cycle'[n].requests = sync_cycle[n].requests + 1
             /\ sync_cycle'[n].res = "Unavailable")
            => IF sync_cycle[n].retry_count < 5
               THEN /\ sync_cycle'[n].pc = "sleeping"
                    /\ sync_cycle'[n].retry_count = sync_cycle[n].retry_count + 1
               ELSE /\ sync_cycle'[n].pc = "done"
                    /\ sync_cycle'[n].retry_count = 5]_vars

\* A cycle that gave up: five retries, six requests, all answered 503.
C18_Witness ==
    \E n \in Nodes :
        /\ sync_cycle[n].pc = "done"
        /\ sync_cycle[n].res = "Unavailable"
        /\ sync_cycle[n].retry_count = 5
        /\ sync_cycle[n].requests = 6

\* C19: once the tripwire of an agent has fired, each of its long-running
\* tasks (the main loop of run, sync_loop, the UDP receive loop, the
\* bootstrap loop) eventually stops.
C19_EveryLoopStops ==
    \A n \in Nodes :
        tripwire[n] ~> (\A l \in Loops : running[n][l] = "stopped")

\* Every change of the changeset is in the database, as far as the merge
\* lets it in: no change of it would still win against the row it is for.
FullyApplied(d, msg) ==
    /\ BkHas(d, msg.actor_id, msg.version)
    /\ \A ch \in msg.changeset : ~MergeWins(d.clock[ch.cell], ch)

\* C20: a Change is applied as a whole or not at all.  The step that ends
\* the transaction of process_msg either commits every row change of the
\* changeset together with its bookkeeping row and nothing else, or (the
\* transaction fails, the agent is stopped) leaves the database as it was;
\* and in every state each row merged from a remote change has the
\* bookkeeping row of the version it came with.
C20_ChangeAppliedAtomically ==
    /\ [](\A n \in Nodes : \A c \in Cells :
            (HasRow(db[n], c) /\ db[n].clock[c].site # Null)
            => \E r \in db[n].bk : /\ r.actor_id = db[n].clock[c].site
                                   /\ r.db_version = db[n].clock[c].dbv)
    /\ [][\A n \in Nodes : \A t \in Tasks :
            task[n][t].pc = "p_tx"
            => IF task'[n][t].pc = "p_book"
               THEN /\ ~BkHas(db[n], task[n][t].msg.actor_id, task[n][t].msg.version)
                    /\ FullyApplied(db'[n], task[n][t].msg)
                    /\ Cardinality(db'[n].bk) = Cardinality(db[n].bk) + 1
                    /\ \A c \in Cells :
                         db'[n].clock[c] # db[n].clock[c]
                         => \E ch \in task[n][t].msg.changeset : ch.cell = c
               ELSE db'[n] = db[n]]_vars

\* A changeset of two changes has just been committed, both rows and the
\* bookkeeping row, on an agent that was stopped and started before.
C20_Witness ==
    \E n \in Nodes : \E t \in Tasks :
        /\ task[n][t].pc = "p_book"
        /\ restarts[n] > 0
        /\ Cardinality(task[n][t].impactful) = 2
        /\ FullyApplied(db[n], task[n][t].msg)
        /\ \A ch \in task[n][t].msg.changeset :
             db[n].clock[ch.cell].site = ch.site_id

\* C21: when the closure handed to make_broadcastable_changes fails, the
\* call returns the error and the rows, the bookkeeping table, the Bookie
\* and what is queued for the broadcaster are what they were before it.
C21_FailedClosureNoEffect ==
    [][\A n \in Nodes :
        (api_call'[n] # api_call[n] /\ api_call'[n].fails)
        => /\ api_call'[n].status = 500
           /\ db'[n] = db[n]
           /\ bookie'[n] = bookie[n]
           /\ pending'[n] = pending[n]
           /\ bcast'[n] = bcast[n]]_vars

\* A closure failed after a statement that writes a value the row of its
\* cell does not hold.
C21_Witness ==
    \E n \in Nodes :
        /\ api_call[n].fails
        /\ \E i \in DOMAIN api_call[n].statements :
             db[n].clock[api_call[n].statements[i].cell].val
                # api_call[n].statements[i].val
        /\ db[n].bk # {}

\* The rows the statements of a request impact on database d.
RowsImpacted(d, statements) ==
    ExecuteClosure(d, statements, crsql_dbversion(d) + 1).n

\* C24: a call of api_v1_db_execute with at least one statement whose
\* writes stay within the cap, on an engine that does not fail, is answered
\* 200 with one result per statement, in the order of the statements: an
\* error for a statement the engine refused, an Execute for every other.
C24_OneResultPerStatement ==
    [][\A n \in Nodes :
        (/\ api_call'[n] # api_call[n]
         /\ ~api_call'[n].fails
         /\ api_call'[n].engine_ok
         /\ api_call'[n].statements # <<>>
         /\ RowsImpacted(db[n], api_call'[n].statements) <= MaxChangeSize)
        => /\ api_call'[n].status = 200
           /\ Len(api_call'[n].results) = Len(api_call'[n].statements)
           /\ \A i \in DOMAIN api_call'[n].statements :
                api_call'[n].results[i].kind =
                    IF api_call'[n].statements[i].bad THEN "Error" ELSE "Execute"]_vars

\* A request of two statements, the first refused and the second a write
\* that changed a row, was answered 200.
C24_Witness ==
    \E n \in Nodes :
        /\ api_call[n].status = 200
        /\ Len(api_call[n].statements) = 2
        /\ api_call[n].statements[1].bad
        /\ Len(api_call[n].results) = 2
        /\ api_call[n].results[2] = [kind |-> "Execute", rows_affected |-> 1]

\* C22: the AddBroadcasts of the local actor's writes are on tx_bcast in the
\* order of their versions: the one of a smaller version is enqueued before
\* the one of a larger version.
C22_LocalBroadcastsInCommitOrder ==
    \A n \in Nodes : \A i, j \in DOMAIN bcast[n] :
        (/\ i < j
         /\ bcast[n][i].kind = "AddBroadcast"
         /\ bcast[n][j].kind = "AddBroadcast"
         /\ bcast[n][i].msg.actor_id = bcast[n][j].msg.actor_id)
        => bcast[n][i].msg.version < bcast[n][j].msg.version

\* The new schema lacks a table or a column the current schema has.
Omits(current, new) ==
    \E t \in DOMAIN current :
        t \notin DOMAIN new \/ current[t] \ new[t] # {}

C25_AppliedIsRebroadcast ==
    [][\A n \in Nodes : \A t \in Tasks :
        (up'[n] /\ task[n][t].out # <<>>)
        => \/ /\ Len(task'[n][t].out) >= Len(task[n][t].out)
              /\ SubSeq(task'[n][t].out, 1, Len(task[n][t].out)) = task[n][t].out
           \/ /\ task'[n][t].out = Tail(task[n][t].out)
              /\ bcast'[n] = Append(bcast[n], [kind |-> "Rebroadcast",
                                                msg |-> Head(task[n][t].out)])]_vars

\* C26: every MemberUp or MemberDown that changes the member set sends to
\* SWIM one ClusterSize, the number of members after the change, also when
\* the change leaves no member.
C26_ClusterSizeFollowsMembers ==
    [][\A n \in Nodes :
        (notified'[n] # notified[n] /\ members'[n] # members[n])
        => Sent(foca_tx[n], foca_tx'[n]) =
              <<[kind |-> "ClusterSize",
                 payload |-> <<Cardinality(members'[n])>>]>>]_vars

\* C27: a request of a sync cycle that fails with an error other than
\* Unavailable ends the cycle at once with that error: no sleep, no value
\* taken from the backoff, no further request of the cycle.
C27_OtherErrorEndsCycle ==
    [][\A n \in Nodes :
        /\ (/\ sync_cycle'[n].requests = sync_cycle[n].requests + 1
            /\ sync_cycle'[n].res \notin {"Ok", "Unavailable"})
           => /\ sync_cycle'[n].pc = "done"
              /\ sync_cycle'[n].res \in {"Status", "RequestTimedOut"}
              /\ sync_cycle'[n].retry_count = sync_cycle[n].retry_count
        /\ (/\ sync_cycle[n].pc = "done"
            /\ sync_cycle[n].res \in {"Status", "RequestTimedOut"})
           => \/ sync_cycle'[n] = sync_cycle[n]
              \/ sync_cycle'[n].requests = 0]_vars

\* A cycle that was retried after Unavailable has ended with another error.
C27_Witness ==
    \E n \in Nodes :
        /\ sync_cycle[n].pc = "done"
        /\ sync_cycle[n].res \in {"Status", "RequestTimedOut"}
        /\ sync_cycle[n].retry_count > 0

\* C28: handle_sync never takes the agent itself as the peer of a request,
\* and with no member other than the agent itself the cycle ends with
\* NoGoodCandidate and no request is made.
C28_NeverSyncsWithItself ==
    /\ [](\A n \in Nodes :
            sync_cycle[n].pc = "requesting" => sync_cycle[n].with # actorId[n])
    /\ [][\A n \in Nodes :
            (/\ sync_cycle'[n] # sync_cycle[n]
             /\ sync_cycle[n].pc \in {"idle", "done", "sleeping"}
             /\ members[n] \subseteq {actorId[n]})
            => /\ sync_cycle'[n].pc = "done"
               /\ sync_cycle'[n].res = "NoGoodCandidate"
               /\ sync_cycle'[n].with = None
               /\ sync_cycle'[n].requests =
                     IF sync_cycle[n].pc = "sleeping"
                     THEN sync_cycle[n].requests ELSE 0]_vars

\* A cycle has ended with NoGoodCandidate on an agent whose only member is
\* the agent itself.
C28_Witness ==
    \E n \in Nodes :
        /\ members[n] = {actorId[n]}
        /\ sync_cycle[n].pc = "done"
        /\ sync_cycle[n].res = "NoGoodCandidate"
        /\ sync_cycle[n].requests = 0

\* C29: when handle_sync has sampled two candidates, the peer of the request
\* is the sampled candidate with the larger need_len_for_actor in the
\* summary the cycle made of the Bookie when it began, either one when the
\* values are equal, never the one with the strictly smaller value.
C29_LargerNeedIsChosen ==
    [][\A n \in Nodes :
        (/\ sync_cycle[n].pc # "requesting"
         /\ sync_cycle'[n].pc = "requesting"
         /\ Cardinality(sync_cycle'[n].choices) = 2)
        => /\ sync_cycle'[n].sync =
                IF sync_cycle[n].pc = "sleeping" THEN sync_cycle[n].sync
                ELSE generate_sync(bookie[n], actorId[n])
           /\ sync_cycle'[n].with \in sync_cycle'[n].choices
           /\ \A other \in sync_cycle'[n].choices :
                need_len_for_actor(sync_cycle'[n].sync, other)
                    <= need_len_for_actor(sync_cycle'[n].sync, sync_cycle'[n].with)]_vars

\* A request is out to the one of two sampled candidates of which the
\* summary needs more versions than of the other.
C29_Witness ==
    \E n \in Nodes :
        /\ sync_cycle[n].pc = "requesting"
        /\ Cardinality(sync_cycle[n].choices) = 2
        /\ \E other \in sync_cycle[n].choices :
             need_len_for_actor(sync_cycle[n].sync, other)
                < need_len_for_actor(sync_cycle[n].sync, sync_cycle[n].with)

\* C30: a new Change whose application leaves MAX(db_version) of the change
\* log at or below start_db_version is committed with a bookkeeping row
\* without db_version, gets a Bookie entry without db_version, publishes
\* nothing to the subscribers, and the Bookie contains its version from
\* then on.
C30_NoAdvanceIsCleared ==
    /\ [](\A n \in Nodes : \A t \in Tasks :
            (/\ task[n][t].pc = "p_tx"
             /\ ~BkHas(task[n][t].tx, task[n][t].msg.actor_id, task[n][t].msg.version)
             /\ crsql_dbversion(ApplyChangeset(task[n][t].tx, task[n][t].msg.changeset,
                                                task[n][t].start + 1).db)
                    <= task[n][t].start)
            => \E r \in {IngestTx(task[n][t].tx, task[n][t].start, task[n][t].msg)} :
                  /\ r.ok
                  /\ r.dbv = NoDbVersion
                  /\ BkRow(task[n][t].msg.actor_id, task[n][t].msg.version,
                           NoDbVersion, task[n][t].msg.ts) \in r.db.bk)
    /\ [][\A n \in Nodes :
        /\ \A t \in Tasks :
            /\ (/\ task[n][t].pc = "p_tx"
                /\ task'[n][t].pc = "p_book"
                /\ MaxDbVersionOfChanges(db'[n]) <= task[n][t].start)
               => BkRow(task[n][t].msg.actor_id, task[n][t].msg.version,
                        NoDbVersion, task[n][t].msg.ts) \in db'[n].bk
            /\ (/\ task[n][t].pc = "p_book"
                /\ task'[n][t].pc # "p_book"
                /\ up'[n]
                /\ BkRow(task[n][t].msg.actor_id, task[n][t].msg.version,
                         NoDbVersion, task[n][t].msg.ts) \in db[n].bk)
               => /\ published'[n] = published[n]
                  /\ [actor_id |-> task[n][t].msg.actor_id,
                      version |-> task[n][t].msg.version,
                      db_version |-> NoDbVersion,
                      ts |-> task[n][t].msg.ts] \in bookie'[n]
                  /\ AlreadySeen(bookie'[n], task[n][t].msg)
        /\ \A e \in bookie[n] :
            (e.db_version = NoDbVersion /\ up[n] /\ up'[n])
                => BookieContains(bookie'[n], e.actor_id, e.version)]_vars

\* The Bookie holds a version of the remote actor without db_version, next
\* to its bookkeeping row.
C30_Witness ==
    \E n \in Nodes :
        \E e \in bookie[n] :
            /\ e.actor_id = RemoteActor
            /\ e.db_version = NoDbVersion
            /\ BkRow(e.actor_id, e.version, NoDbVersion, e.ts) \in db[n].bk

\* The frames of a broadcast body that are decoded: those before the first
\* frame that does not decode.
DecodedFrames(rest) ==
    SubSeq(rest, 1,
           IF \E j \in DOMAIN rest : rest[j].corrupt
           THEN (CHOOSE j \in DOMAIN rest :
                    rest[j].corrupt /\ \A i \in 1..(j - 1) : ~rest[i].corrupt) - 1
           ELSE Len(rest))

\* C31: of the Changes handle_broadcast decodes from a broadcast datagram,
\* those whose (actor, version) the Bookie does not contain and whose actor
\* is not the local actor go to the ingest channel, in their order, and no
\* other: a discarded Change does not stop the decoding of the next frame.
C31_ForwardsNewForeignChanges ==
    [][\A n \in Nodes :
        (/\ datagrams'[n] # datagrams[n]
         /\ handled'[n].payload.first \in {<<1>>, <<2>>}) =>
            LET decoded == DecodedFrames(handled'[n].payload.rest)
                keep == {j \in DOMAIN decoded :
                            /\ ~BookieContains(bookie[n], decoded[j].msg.actor_id,
                                               decoded[j].msg.version)
                            /\ decoded[j].msg.actor_id # actorId[n]}
                ingest == Sent(bcast_msg_tx[n], bcast_msg_tx'[n])
            IN  /\ Len(ingest) = Cardinality(keep)
                /\ \A i \in DOMAIN ingest :
                     \E j \in keep :
                        /\ Cardinality({k \in keep : k <= j}) = i
                        /\ ingest[i] = decoded[j].msg]_vars

\* A broadcast datagram whose first frame was a Change of the local actor
\* and whose second frame, a Change of another actor, is the last message of
\* the ingest channel.
C31_Witness ==
    \E n \in Nodes :
        /\ handled[n].payload.first \in {<<1>>, <<2>>}
        /\ Len(handled[n].payload.rest) = 2
        /\ \A j \in 1..2 : ~handled[n].payload.rest[j].corrupt
        /\ handled[n].payload.rest[1].msg.actor_id = actorId[n]
        /\ handled[n].payload.rest[2].msg.actor_id # actorId[n]
        /\ bcast_msg_tx[n] # <<>>
        /\ bcast_msg_tx[n][Len(bcast_msg_tx[n])] = handled[n].payload.rest[2].msg

\* C32: the Bookie holds one state per version of the local actor; a state
\* appears in it only when the bookkeeping row of its version is committed
\* (a write whose transaction does not commit leaves the Bookie as it is),
\* and while the agent runs no step changes or removes a state it holds.
C32_OneStatePerLocalVersion ==
    /\ [](\A n \in Nodes : \A e1, e2 \in bookie[n] :
            (e1.actor_id = e2.actor_id /\ e1.version = e2.version) => e1 = e2)
    /\ [][\A n \in Nodes :
            /\ \A e \in bookie'[n] \ bookie[n] :
                 (up'[n] /\ e.actor_id = actorId'[n])
                 => /\ ~BookieContains(bookie[n], e.actor_id, e.version)
                    /\ \E r \in db[n].bk :
                         /\ r.actor_id = e.actor_id
                         /\ r.version = e.version
                         /\ r.db_version = e.db_version
            /\ \A e \in bookie[n] :
                 (up[n] /\ up'[n] /\ e.actor_id = actorId[n]) => e \in bookie'[n]
            /\ \A t \in Tasks :
                 (/\ task[n][t].pc = "w_tx"
                  /\ task'[n][t].pc \notin {"w_tx", "w_committed"}
                  /\ up'[n])
                 => bookie'[n] = bookie[n]]_vars

\* The Bookie holds versions 1 and 2 of the local actor and a version of
\* the remote actor: a local write and an ingest have followed version 1.
C32_Witness ==
    \E n \in Nodes :
        /\ up[n]
        /\ BookieContains(bookie[n], actorId[n], 1)
        /\ BookieContains(bookie[n], actorId[n], 2)
        /\ BookieContains(bookie[n], RemoteActor, 1)

\* C33: in every state of a running agent the engine's db_version is at
\* least the db_version of every Current state the Bookie holds for the
\* local actor.
C33_DbVersionCoversLocalStates ==
    \A n \in Nodes :
        up[n] =>
            \A e \in bookie[n] :
                (e.actor_id = actorId[n] /\ e.db_version # NoDbVersion)
                    => e.db_version <= crsql_dbversion(db[n])

\* The Bookie holds a Current state of the local actor at the engine's
\* db_version, which is beyond 1: other commits came before it.
C33_Witness ==
    \E n \in Nodes :
        /\ up[n]
        /\ \E e \in bookie[n] :
             /\ e.actor_id = actorId[n]
             /\ e.db_version = crsql_dbversion(db[n])
             /\ e.db_version > 1

\* C34: generate_bootstrap returns at most RANDOM_NODES_CHOICES addresses;
\* when the resolution of the bootstrap list fails or gives no address and
\* the members table can be read, what it returns are addresses of the
\* members table (all its usable ones when the table has no more rows than
\* the query reads), and otherwise addresses the resolution gave.
C34_AtMostTenAndFallback ==
    \A n \in Nodes :
        bootstrap[n].ret # None =>
            LET call == bootstrap[n]
                usable == {r.addr : r \in {x \in call.rows :
                              /\ x.parses
                              /\ x.addr.fam = our_addr(n).fam
                              /\ x.addr # our_addr(n)}}
            IN  /\ Cardinality(call.addrs) <= 10
                /\ IF ~call.resolved.ok \/ call.resolved.addrs = {}
                   THEN call.pool_ok =>
                          /\ call.ret = "Ok"
                          /\ call.addrs \subseteq usable
                          /\ Cardinality(call.rows) <= 5 => call.addrs = usable
                   ELSE /\ call.ret = "Ok"
                        /\ call.addrs \subseteq call.resolved.addrs
                        /\ call.addrs # {}

\* A call whose bootstrap list resolved without error to no address has
\* returned an address of the members table.
C34_Witness ==
    \E n \in Nodes :
        /\ bootstrap[n].ret = "Ok"
        /\ bootstrap[n].list # <<>>
        /\ bootstrap[n].resolved.ok
        /\ bootstrap[n].resolved.addrs = {}
        /\ bootstrap[n].addrs # {}

\* C40: the address of the agent's own gossip socket is never among the
\* addresses generate_bootstrap returns.
C40_NeverAnnouncesToItself ==
    \A n \in Nodes : our_addr(n) \notin bootstrap[n].addrs

\* C35: for a version of the local actor the timestamp of its bookkeeping
\* row is the timestamp of its state in the Bookie and of the Change handed
\* to the broadcaster.
C35_OneTimestampPerLocalVersion ==
    \A n \in Nodes :
        up[n] =>
            \A r \in db[n].bk :
                r.actor_id = actorId[n] =>
                    /\ \A e \in bookie[n] :
                         (e.actor_id = r.actor_id /\ e.version = r.version)
                            => e.ts = r.ts
                    /\ \A b \in pending[n] :
                         (b.msg.actor_id = r.actor_id /\ b.msg.version = r.version)
                            => b.msg.ts = r.ts

\* C36: every (actor, version) the Bookie of a running agent contains has a
\* committed bookkeeping row with the same db_version (none for both when
\* the version is Cleared), for versions of the local actor and of remote
\* actors alike.
C36_BookieWithinBookkeeping ==
    \A n \in Nodes :
        up[n] =>
            \A e \in bookie[n] :
                \E r \in db[n].bk :
                    /\ r.actor_id = e.actor_id
                    /\ r.version = e.version
                    /\ r.db_version = e.db_version

\* The Bookie holds a version of the local actor and versions of the remote
\* actor, one of them Cleared, each with its row.
C36_Witness ==
    \E n \in Nodes :
        /\ up[n]
        /\ \E e \in bookie[n] : e.actor_id = actorId[n]
        /\ \E e \in bookie[n] : e.actor_id = RemoteActor /\ e.db_version = NoDbVersion
        /\ \A e \in bookie[n] : BkHas(db[n], e.actor_id, e.version)

\* C37: when two tasks process the same Change that the Bookie does not
\* contain, one transaction commits it, on no earlier bookkeeping row of its
\* version, leaving what a single application of the Change leaves, and
\* that task registers the version and returns the message; the task that
\* finds the version committed by the other ends without a returned
\* message and leaves the engine state and the Bookie as they are.  A task
\* in its transaction for a Change that a single application would apply
\* can commit it, and no other task is then in or past its transaction for
\* the same Change.
C37_OneOfTwoApplies ==
    /\ [](\A n \in Nodes : \A t \in Tasks :
            (/\ task[n][t].pc = "p_tx"
             /\ process_msg(NodeState(n), task[n][t].msg).ret = "Some")
            => /\ IngestTx(task[n][t].tx, task[n][t].start, task[n][t].msg).ok
               /\ \A u \in Tasks \ {t} :
                     task[n][u].pc \in {"p_tx", "p_book"}
                        => task[n][u].msg # task[n][t].msg)
    /\ [][\A n \in Nodes : \A t \in Tasks :
        LET me == task[n][t]
            known == \E r \in db[n].bk :
                        r.actor_id = me.msg.actor_id /\ r.version = me.msg.version
        IN  /\ (me.pc = "p_tx" /\ task'[n][t].pc = "p_book")
               => /\ ~known
                  /\ db'[n] = process_msg(NodeState(n), me.msg).db
                  /\ bookie'[n] = bookie[n]
            /\ (me.pc = "p_tx" /\ known /\ up'[n] /\ task'[n][t].pc # "p_tx")
               => /\ task'[n][t].pc = "idle"
                  /\ db'[n] = db[n]
                  /\ bookie'[n] = bookie[n]
            /\ (me.pc = "p_book" /\ up'[n] /\ task'[n][t].pc # "p_book")
               => /\ ~BookieContains(bookie[n], me.msg.actor_id, me.msg.version)
                  /\ \E e \in bookie'[n] :
                        /\ e.actor_id = me.msg.actor_id
                        /\ e.version = me.msg.version
                        /\ bookie'[n] = bookie[n] \cup {e}
                  /\ db'[n] = db[n]
                  /\ Len(task'[n][t].out) = Len(me.out) + 1]_vars

\* A task is in its transaction for a Change whose bookkeeping row another
\* task has committed since this task looked into the Bookie.
C37_Witness ==
    \E n \in Nodes : \E t, u \in Tasks :
        /\ t # u
        /\ task[n][t].pc = "p_tx"
        /\ task[n][u].pc = "p_book"
        /\ task[n][u].msg = task[n][t].msg
        /\ \E r \in db[n].bk :
              r.actor_id = task[n][t].msg.actor_id /\ r.version = task[n][t].msg.version


\* C38: whatever datagram arrives on the gossip socket, the one of length
\* zero included, handle_payload ends by returning: Ok after the dispatch
\* on the kind byte, or an error.
C38_EveryDatagramIsAnswered ==
    \A n \in Nodes :
        handled[n] # NoDatagram => handled[n].ret \in {"Ok", "Err"}


\* C39: a sync cycle that registers versions in the Bookie leaves a
\* committed bookkeeping row for each of them and leaves the input queue of
\* the broadcaster as it is; the queue grows only in a step that handles a
\* message received by gossip or commits a local write.
C39_SyncDoesNotRebroadcast ==
    [][\A n \in ClusterNodes :
        /\ (/\ up[n] /\ up'[n]
            /\ bookie'[n] # bookie[n]
            /\ net' = net
            /\ committed' = committed)
           => /\ bcast'[n] = bcast[n]
              /\ \A e \in bookie'[n] \ bookie[n] :
                    BkHas(db'[n], e.actor_id, e.version)
        /\ Len(bcast'[n]) > Len(bcast[n])
           => \/ net'[n] # net[n]
              \/ committed'[n] # committed[n]]_vars

\* A node holds a version of the other node whose broadcast has not left
\* the writer's queue: it came by sync, and the node's own queue is empty.
C39_Witness ==
    \E n \in ClusterNodes : \E p \in ClusterNodes \ {n} :
        /\ up[n] /\ up[p]
        /\ bcast[n] = <<>>
        /\ \E i \in 1..Len(bcast[p]) :
              /\ bcast[p][i].kind = "AddBroadcast"
              /\ bcast[p][i].msg.actor_id = actorId[p]
              /\ BookieContains(bookie[n], actorId[p], bcast[p][i].msg.version)
              /\ BkHas(db[n], actorId[p], bcast[p][i].msg.version)

====
